---- MODULE Spec2Model ----
(***************************************************************************)
(* State-machine model of the vfsh terminal file browser                   *)
(* (internal/tui/model.go): the bubbletea Model, its Update dispatch, the  *)
(* detached commands (tea.Cmd closures) it issues and the messages they    *)
(* deliver back.                                                           *)
(*                                                                         *)
(* Strings the program takes apart (names, the text input) are sequences   *)
(* of characters; paths are sequences of names: <<>> is "/" and <<<<"s">>>>  *)
(* is "/s".                                                                *)
(* A tea.Cmd lives in `tasks` from the moment Update returns it until its  *)
(* goroutine has run the closure (RunTask); the message the closure        *)
(* returned lives in `msgs` until Update processes it.  bubbletea gives no *)
(* order between the sends of different goroutines, so both are bags.      *)
(***************************************************************************)
EXTENDS Integers, Sequences, FiniteSets, Bags, TLC

\* ---------------------------------------------------------------- bounds
\* total number of commands issued in one run
MaxTasks == 3
\* the clock stops at MaxNow milliseconds
MaxNow == 1100
\* longest text held by the text input
MaxInput == 1
\* longest command line given to parseCommandLine, the examples apart
MaxLine == 4

\* furthest the terminal is scrolled back by PageUp
MaxOffset == 16

\* ------------------------------------------------------- program constants
\* getVisibleLines: reserved := 8
Reserved == 8
\* getVisibleLines: floor of 5 rows
MinVisible == 5
\* handleMouseEvent: m.fileListTop = 2
FileListTop == 2
\* handleMouseEvent: 500 * time.Millisecond
DoubleClickThreshold == 500

\* ------------------------------------------------------------ environment
\* milliseconds added by one clock step
TickMs == 300
\* window heights a WindowSizeMsg may carry
Heights == {14}
\* rows a mouse click may hit
ClickRows == {1, 2, 7}
\* characters a key press may put into the text input
Chars == {"y", " "}

\* The storage collaborator's content: every node with its kind.
\* the empty directory /a, files /b /c /d /e, the directory /s holding /s/x
InitStore ==
    { [path |-> << <<"a">> >>, isDir |-> TRUE],
      [path |-> << <<"b">> >>, isDir |-> FALSE],
      [path |-> << <<"c">> >>, isDir |-> FALSE],
      [path |-> << <<"d">> >>, isDir |-> FALSE],
      [path |-> << <<"e">> >>, isDir |-> FALSE],
      [path |-> << <<"s">> >>, isDir |-> TRUE],
      [path |-> << <<"s">>, <<"x">> >>, isDir |-> FALSE] }

\* The characters, in the order the collaborator's ReadDirectory sorts by.
Alphabet == <<" ", "Y", "a", "b", "c", "d", "e", "q", "s", "x", "y">>

VARIABLES
    currentPath, previousDir, entries, cursor, offset,
    height, showPreview, previewContent, previewError, previewGen,
    lastClickTime, lastClickY,
    mode, inputType, textInput,
    statusMsg, errorMsg, commandOut,
    terminalHistory, terminalOffset, commandCounter,
    tasks, msgs, issued,
    store, now,
    showFullHelp, quit,
    pc, shutdowns, result,
    given, returned,
    latest, staleDropped, origin, lastLeft, prompted

navVars == <<currentPath, previousDir, entries, cursor, offset>>
viewVars == <<height, showPreview, previewContent, previewError, previewGen>>
mouseVars == <<lastClickTime, lastClickY>>
modeVars == <<mode, inputType, textInput>>
statusVars == <<statusMsg, errorMsg, commandOut>>
termVars == <<terminalHistory, terminalOffset, commandCounter>>
asyncVars == <<tasks, msgs, issued>>
envVars == <<store, now>>
\* the help overlay switch, and whether tea.Quit has been returned
helpVars == <<showFullHelp, quit>>
\* the tui command around the program: where its RunE is, how often it has
\* called fs.Shutdown, and the error it returned
cmdVars == <<pc, shutdowns, result>>
\* a function of the program called on its own: <<what it is given>> and
\* <<what it returns>>, each empty when there is none
callVars == <<given, returned>>
\* bookkeeping of the verification; nothing of the program depends on it
ghostVars == <<latest, staleDropped, origin, lastLeft, prompted>>

\* everything the Model struct owns
modelVars == <<navVars, viewVars, mouseVars, modeVars, statusVars, termVars,
               showFullHelp>>

vars == <<navVars, viewVars, mouseVars, modeVars, statusVars, termVars,
          asyncVars, envVars, helpVars, cmdVars, callVars, ghostVars>>

\* no left click on an entry yet
NoClick == [index |-> -1, y |-> -1, time |-> 0]

\* no function is being called on its own
NoCall == <<>>

\* RunE has not returned yet
NotReturned == "-"

\* p.Run is in its event loop and tea.Quit has not been returned
Running == pc = "Run" /\ ~quit

\* ------------------------------------------------------------- paths
Root == <<>>

\* filepath.Join(dir, name) for a single clean name
Join(dir, name) == Append(dir, name)

\* filepath.Base: the last element ("/" for the root)
Base(p) == IF p = Root THEN <<"/">> ELSE p[Len(p)]

\* filepath.Dir: all but the last element ("/" for the root)
Dir(p) == IF p = Root THEN Root ELSE SubSeq(p, 1, Len(p) - 1)

\* ------------------------------------------------------------- storage
IsDirIn(st, p) == p = Root \/ [path |-> p, isDir |-> TRUE] \in st

ExistsIn(st, p) == p = Root \/ \E n \in st : n.path = p

MkEntry(st, dir, name) ==
    [Name |-> name, Path |-> Join(dir, name),
     IsDir |-> IsDirIn(st, Join(dir, name))]

CharRank(c) == CHOOSE i \in 1..Len(Alphabet) : Alphabet[i] = c

RECURSIVE NameLess(_, _)
NameLess(a, b) ==
    IF a = <<>> THEN b # <<>>
    ELSE IF b = <<>> THEN FALSE
    ELSE IF Head(a) = Head(b) THEN NameLess(Tail(a), Tail(b))
    ELSE CharRank(Head(a)) < CharRank(Head(b))

\* the names of the nodes directly under `dir`
Children(st, dir) ==
    { n.path[Len(n.path)] :
        n \in { m \in st : /\ Len(m.path) = Len(dir) + 1
                           /\ SubSeq(m.path, 1, Len(dir)) = dir } }

RECURSIVE ListOf(_, _, _)
ListOf(st, dir, names) ==
    IF names = {} THEN <<>>
    ELSE LET first == CHOOSE x \in names : \A y \in names \ {x} : NameLess(x, y)
         IN <<MkEntry(st, dir, first)>> \o ListOf(st, dir, names \ {first})

\* VFSAdapter.ListDirectory: one Entry per metadata record, in the
\* collaborator's order
ListDirectory(st, dir) == ListOf(st, dir, Children(st, dir))

\* ------------------------------------------------------------- tasks, messages
NoPath == <<>>
NoEntries == <<>>
NoText == <<>>
\* the empty string where a name is held
NoName == <<>>
\* a status line: a fixed text and the name formatted into it
Status(text, name) == [text |-> text, name |-> name]
NoStatus == Status("", NoName)

\* A tea.Cmd closure with what it captured: the preview generation
\* (currentGen), whether it is the constant empty-preview closure, the
\* captured entry (its path and kind), the captured *TerminalEntry (its
\* index in the history) and the captured text (a name or a command line).
\* `back` is bookkeeping: the directory name goBack remembered when it
\* returned this command.
Task(kind, gen, empty, path, isDir, slot, line, back) ==
    [kind |-> kind, gen |-> gen, empty |-> empty, path |-> path,
     isDir |-> isDir, slot |-> slot, line |-> line, back |-> back]

\* the command loadDirectory returns
LoadTask == Task("load", 0, FALSE, NoPath, FALSE, 0, NoText, NoName)

\* the command loadDirectory returns to goBack
BackLoadTask(name) == Task("load", 0, FALSE, NoPath, FALSE, 0, NoText, name)

PreviewTask(gen, empty, path) ==
    Task("preview", gen, empty, path, FALSE, 0, NoText, NoName)

\* Model.createFile: the command, holding the name
createFile(name) == Task("createFile", 0, FALSE, NoPath, FALSE, 0, name, NoName)

\* Model.createDirectory: the command, holding the name
createDirectory(name) ==
    Task("createDirectory", 0, FALSE, NoPath, FALSE, 0, name, NoName)

\* Model.executeCommand: the command, holding the command line
executeCommand(cmdLine) == Task("execute", 0, FALSE, NoPath, FALSE, 0, cmdLine, NoName)

\* A message; `back` is the bookkeeping of the command that produced it.
Msg(type, ents, content, err, gen, output, error) ==
    [type |-> type, entries |-> ents, content |-> content, err |-> err,
     generation |-> gen, output |-> output, error |-> error, back |-> NoName]

directoryLoadedMsg(ents) == Msg("directoryLoaded", ents, NoPath, "", 0, "", "")

previewLoadedMsg(content, err, gen) == Msg("previewLoaded", NoEntries, content, err, gen, "", "")

commandExecutedMsg(output, error) == Msg("commandExecuted", NoEntries, NoPath, "", 0, output, error)

errorMsgOf(text) == Msg("error", NoEntries, NoPath, "", 0, "", text)

\* ------------------------------------------------------------- Model helpers
\* Model.getVisibleLines
getVisibleLines(h) ==
    IF h - Reserved < MinVisible THEN MinVisible ELSE h - Reserved

\* Model.currentEntry: "nil" is HasEntry = FALSE
HasEntry(ents, cur) == cur >= 0 /\ cur < Len(ents)

currentEntry(ents, cur) == ents[cur + 1]

\* Model.moveCursor: the new <<cursor, offset>>
moveCursor(ents, cur, off, h, delta) ==
    IF Len(ents) = 0 THEN <<cur, off>>
    ELSE LET c1 == cur + delta
             c2 == IF c1 < 0 THEN 0 ELSE c1
             c3 == IF c2 >= Len(ents) THEN Len(ents) - 1 ELSE c2
             o1 == IF c3 < off THEN c3 ELSE off
             o2 == IF c3 >= o1 + getVisibleLines(h)
                   THEN c3 - getVisibleLines(h) + 1 ELSE o1
         IN <<c3, o2>>

\* a faulty updatePreview that does not count the generation up
updatePreviewSameGen(show, ents, cur, gen) ==
    IF ~show THEN [gen |-> gen, cmds |-> <<>>]
    ELSE IF ~HasEntry(ents, cur) \/ currentEntry(ents, cur).IsDir
         THEN [gen |-> gen, cmds |-> <<PreviewTask(gen, TRUE, NoPath)>>]
         ELSE [gen |-> gen,
               cmds |-> <<PreviewTask(gen, FALSE, currentEntry(ents, cur).Path)>>]

\* Model.updatePreview: the new previewGen and the command returned
updatePreview(show, ents, cur, gen) ==
    IF ~show THEN [gen |-> gen, cmds |-> <<>>]
    ELSE IF ~HasEntry(ents, cur) \/ currentEntry(ents, cur).IsDir
         THEN [gen |-> gen + 1, cmds |-> <<PreviewTask(gen + 1, TRUE, NoPath)>>]
         ELSE [gen |-> gen + 1,
               cmds |-> <<PreviewTask(gen + 1, FALSE, currentEntry(ents, cur).Path)>>]

\* enterDirectory leaving the cursor and the offset where they were
enterDirectoryKeepsCursor(ents, cur, path, prev, off, status) ==
    IF ~HasEntry(ents, cur)
    THEN [currentPath |-> path, previousDir |-> prev, cursor |-> cur,
          offset |-> off, statusMsg |-> status, cmds |-> <<>>]
    ELSE IF ~currentEntry(ents, cur).IsDir
    THEN [currentPath |-> path, previousDir |-> prev, cursor |-> cur,
          offset |-> off,
          statusMsg |-> Status("Cannot open file: ", currentEntry(ents, cur).Name),
          cmds |-> <<>>]
    ELSE [currentPath |-> currentEntry(ents, cur).Path, previousDir |-> NoName,
          cursor |-> cur, offset |-> off, statusMsg |-> status,
          cmds |-> <<LoadTask>>]

\* Model.enterDirectory: what it assigns and the command returned
enterDirectory(ents, cur, path, prev, off, status) ==
    IF ~HasEntry(ents, cur)
    THEN [currentPath |-> path, previousDir |-> prev, cursor |-> cur,
          offset |-> off, statusMsg |-> status, cmds |-> <<>>]
    ELSE IF ~currentEntry(ents, cur).IsDir
    THEN [currentPath |-> path, previousDir |-> prev, cursor |-> cur,
          offset |-> off,
          statusMsg |-> Status("Cannot open file: ", currentEntry(ents, cur).Name),
          cmds |-> <<>>]
    ELSE [currentPath |-> currentEntry(ents, cur).Path, previousDir |-> NoName,
          cursor |-> 0, offset |-> 0, statusMsg |-> status,
          cmds |-> <<LoadTask>>]

\* Model.goBack: what it assigns and the command returned
goBack(path, prev, cur, off) ==
    IF path = Root
    THEN [currentPath |-> path, previousDir |-> prev, cursor |-> cur,
          offset |-> off, cmds |-> <<>>]
    ELSE [currentPath |-> Dir(path), previousDir |-> Base(path), cursor |-> 0,
          offset |-> 0, cmds |-> <<BackLoadTask(Base(path))>>]

\* index (from 0) of the first entry named `name`, or -1
RECURSIVE IndexOfName(_, _, _)
IndexOfName(ents, name, i) ==
    IF i > Len(ents) THEN -1
    ELSE IF ents[i].Name = name THEN i - 1
    ELSE IndexOfName(ents, name, i + 1)

\* Update, case directoryLoadedMsg: the new <<cursor, offset, previousDir>>
applyDirectoryLoaded(ents, cur, off, prev, h) ==
    IF prev # NoName
    THEN LET i == IndexOfName(ents, prev, 1)
             vis == getVisibleLines(h)
         IN IF i >= 0
            THEN <<i,
                   IF i >= off + vis THEN i - vis + 1
                   ELSE IF i < off THEN i ELSE off,
                   NoName>>
            ELSE <<cur, off, NoName>>
    ELSE LET c1 == IF Len(ents) > 0 /\ cur >= Len(ents) THEN Len(ents) - 1 ELSE cur
             c2 == IF c1 < 0 THEN 0 ELSE c1
         IN <<c2, off, prev>>

\* the generation test letting older generations through
previewAppliesOlder(generation, gen) == generation <= gen

\* the generation test left out
previewAppliesAlways(generation, gen) == TRUE

\* Update, case previewLoadedMsg: whether the message is applied
previewApplies(generation, gen) == generation = gen

\* strings.TrimSpace on a sequence of characters
RECURSIVE TrimLeft(_)
TrimLeft(s) == IF s # <<>> /\ Head(s) = " " THEN TrimLeft(Tail(s)) ELSE s

RECURSIVE TrimRight(_)
TrimRight(s) ==
    IF s # <<>> /\ s[Len(s)] = " " THEN TrimRight(SubSeq(s, 1, Len(s) - 1)) ELSE s

TrimSpace(s) == TrimRight(TrimLeft(s))

\* strings.ToLower on a sequence of characters
ToLower(s) == [i \in 1..Len(s) |-> IF s[i] = "Y" THEN "y" ELSE s[i]]

\* Model.deleteEntry: the command, holding the entry selected now
deleteEntry(ents, cur) ==
    IF ~HasEntry(ents, cur) THEN <<>>
    ELSE <<Task("delete", 0, FALSE, currentEntry(ents, cur).Path,
                currentEntry(ents, cur).IsDir, 0, NoText, NoName)>>

\* Model.renameEntry: the command, holding the entry selected now and the
\* new name
renameEntry(ents, cur, newName) ==
    IF ~HasEntry(ents, cur) THEN <<>>
    ELSE <<Task("rename", 0, FALSE, currentEntry(ents, cur).Path,
                currentEntry(ents, cur).IsDir, 0, newName, NoName)>>

\* Model.startInput: what it assigns
startInput(it) ==
    [mode |-> IF it = "Command" THEN "Command" ELSE "Input",
     inputType |-> it, textInput |-> <<>>, errorMsg |-> "", statusMsg |-> NoStatus]

\* a faulty submitInput that does not trim the text
submitInputUntrimmed(text, it, md, ents, cur) ==
    LET value == text
    IN IF it = "Command"
       THEN [mode |-> md,
             cmds |-> IF value = <<>> THEN <<>> ELSE <<executeCommand(value)>>]
       ELSE [mode |-> "Normal",
             cmds |->
                IF value = <<>> THEN <<>>
                ELSE IF it = "NewFile" THEN <<createFile(value)>>
                ELSE IF it = "NewDir" THEN <<createDirectory(value)>>
                ELSE IF it = "Rename" THEN renameEntry(ents, cur, value)
                ELSE IF it = "Delete"
                     THEN IF ToLower(value) \in {<<"y">>, <<"y", "e", "s">>}
                          THEN deleteEntry(ents, cur) ELSE <<>>
                     ELSE <<>>]

\* Model.submitInput: the new mode and the command returned
submitInput(text, it, md, ents, cur) ==
    LET value == TrimSpace(text)
    IN IF it = "Command"
       THEN [mode |-> md,
             cmds |-> IF value = <<>> THEN <<>> ELSE <<executeCommand(value)>>]
       ELSE [mode |-> "Normal",
             cmds |->
                IF value = <<>> THEN <<>>
                ELSE IF it = "NewFile" THEN <<createFile(value)>>
                ELSE IF it = "NewDir" THEN <<createDirectory(value)>>
                ELSE IF it = "Rename" THEN renameEntry(ents, cur, value)
                ELSE IF it = "Delete"
                     THEN IF ToLower(value) \in {<<"y">>, <<"y", "e", "s">>}
                          THEN deleteEntry(ents, cur) ELSE <<>>
                     ELSE <<>>]

\* parseCommandLine: a state of the scan is <<args, current, inQuote, quoteChar>>
RECURSIVE parseFrom(_, _, _, _, _)
parseFrom(line, args, current, inQuote, quoteChar) ==
    IF line = <<>>
    THEN IF Len(current) > 0 THEN Append(args, current) ELSE args
    ELSE LET ch == Head(line)
             rest == Tail(line)
         IN IF ch = "\"" \/ ch = "'"
            THEN IF inQuote
                 THEN IF ch = quoteChar
                      THEN parseFrom(rest, args, current, FALSE, "")
                      ELSE parseFrom(rest, args, Append(current, ch), inQuote, quoteChar)
                 ELSE parseFrom(rest, args, current, TRUE, ch)
            ELSE IF ch = " " /\ ~inQuote
                 THEN IF Len(current) > 0
                      THEN parseFrom(rest, Append(args, current), <<>>, inQuote, quoteChar)
                      ELSE parseFrom(rest, args, current, inQuote, quoteChar)
                 ELSE parseFrom(rest, args, Append(current, ch), inQuote, quoteChar)

parseCommandLine(line) == parseFrom(line, <<>>, <<>>, FALSE, "")

\* ------------------------------------------------------------- the loop
\* the bag `b` with the elements of the sequence `seq` added
RECURSIVE AddAll(_, _)
AddAll(b, seq) ==
    IF seq = <<>> THEN b ELSE AddAll(b (+) SetToBag({Head(seq)}), Tail(seq))

\* Update returned the commands `cmds` (a sequence, empty for nil): each
\* becomes a goroutine.
Issue(cmds) ==
    /\ issued + Len(cmds) <= MaxTasks
    /\ tasks' = AddAll(tasks, cmds)
    /\ issued' = issued + Len(cmds)

\* NewModel, then Init's batch: the first loadDirectory is in flight
InitModel ==
    /\ currentPath = Root
    /\ previousDir = NoName
    /\ entries = <<>>
    /\ cursor = 0
    /\ offset = 0
    /\ height = 0
    /\ showPreview = TRUE
    /\ previewContent = NoPath
    /\ previewError = ""
    /\ previewGen = 0
    /\ lastClickTime = 0
    /\ lastClickY = 0
    /\ mode = "Normal"
    /\ inputType = "NewFile"
    /\ textInput = <<>>
    /\ statusMsg = NoStatus
    /\ errorMsg = ""
    /\ commandOut = ""
    /\ terminalHistory = <<>>
    /\ terminalOffset = 0
    /\ commandCounter = 0
    /\ tasks = SetToBag({LoadTask})
    /\ msgs = EmptyBag
    /\ issued = 1
    /\ store = InitStore
    /\ now = DoubleClickThreshold
    /\ showFullHelp = FALSE
    /\ quit = FALSE
    /\ pc = "Run"
    /\ shutdowns = 0
    /\ result = NotReturned
    /\ latest = previewLoadedMsg(NoPath, "", 0)
    /\ staleDropped = FALSE
    /\ origin = EmptyBag
    /\ lastLeft = NoClick
    /\ prompted = NoPath

Init ==
    /\ InitModel
    /\ given = NoCall
    /\ returned = NoCall

\* ------------------------------------------------------------- environment
\* time passes
Tick ==
    /\ now + TickMs <= MaxNow
    /\ now' = now + TickMs
    /\ UNCHANGED <<modelVars, asyncVars, store, helpVars, cmdVars, callVars, ghostVars>>

\* Update, case tea.WindowSizeMsg
WindowSize ==
    /\ Running
    /\ \E h \in Heights : height' = h
    /\ UNCHANGED <<navVars, showPreview, previewContent, previewError, previewGen,
                   mouseVars, modeVars, statusVars, termVars, asyncVars, envVars,
                   helpVars, cmdVars, callVars, ghostVars>>

\* ------------------------------------------------------------- Normal mode
\* a faulty first test that lets the mouse through in every mode
handlesMouseAlways(md) == md = md

\* handleMouseEvent's first test: the mouse is handled in Normal mode only
handlesMouse(md) == md = "Normal"

\* handleNormalMode, Up / Down / PageUp / PageDown and the mouse wheel:
\* moveCursor(delta), then updatePreview
MoveBy(delta) ==
    /\ LET mv == moveCursor(entries, cursor, offset, height, delta)
           up == updatePreview(showPreview, entries, mv[1], previewGen)
       IN /\ cursor' = mv[1]
          /\ offset' = mv[2]
          /\ previewGen' = up.gen
          /\ Issue(up.cmds)
    /\ UNCHANGED <<currentPath, previousDir, entries, height, showPreview,
                   previewContent, previewError, mouseVars, modeVars, statusVars,
                   termVars, msgs, envVars, helpVars, cmdVars, callVars, ghostVars>>

KeyUp == Running /\ mode = "Normal" /\ MoveBy(-1)

KeyDown == Running /\ mode = "Normal" /\ MoveBy(1)

KeyPageUp == Running /\ mode = "Normal" /\ MoveBy(-10)

KeyPageDown == Running /\ mode = "Normal" /\ MoveBy(10)

\* handleMouseEvent, MouseButtonWheelUp / MouseButtonWheelDown
WheelUp == Running /\ handlesMouse(mode) /\ MoveBy(-1)

WheelDown == Running /\ handlesMouse(mode) /\ MoveBy(1)

\* handleNormalMode, Top: the new <<cursor, offset>>
topKey(ents, cur, off) == <<0, 0>>

\* handleNormalMode, Bottom: the new <<cursor, offset>>
bottomKey(ents, cur, off) ==
    IF Len(ents) > 0 THEN <<Len(ents) - 1, off>> ELSE <<cur, off>>

JumpTo(co) ==
    /\ Running
    /\ mode = "Normal"
    /\ LET up == updatePreview(showPreview, entries, co[1], previewGen)
       IN /\ cursor' = co[1]
          /\ offset' = co[2]
          /\ previewGen' = up.gen
          /\ Issue(up.cmds)
    /\ UNCHANGED <<currentPath, previousDir, entries, height, showPreview,
                   previewContent, previewError, mouseVars, modeVars, statusVars,
                   termVars, msgs, envVars, helpVars, cmdVars, callVars, ghostVars>>

KeyTop == JumpTo(topKey(entries, cursor, offset))

KeyBottom == JumpTo(bottomKey(entries, cursor, offset))

\* enterDirectory's assignments applied to the Model
DoEnter(cur) ==
    LET r == enterDirectory(entries, cur, currentPath, previousDir, offset, statusMsg)
    IN /\ currentPath' = r.currentPath
       /\ previousDir' = r.previousDir
       /\ cursor' = r.cursor
       /\ offset' = r.offset
       /\ statusMsg' = r.statusMsg
       /\ Issue(r.cmds)

\* handleNormalMode, Enter
KeyEnter ==
    /\ Running
    /\ mode = "Normal"
    /\ DoEnter(cursor)
    /\ UNCHANGED <<entries, viewVars, mouseVars, modeVars, errorMsg, commandOut,
                   termVars, msgs, envVars, helpVars, cmdVars, callVars, ghostVars>>

\* goBack's assignments applied to the Model
DoBack ==
    LET r == goBack(currentPath, previousDir, cursor, offset)
    IN /\ currentPath' = r.currentPath
       /\ previousDir' = r.previousDir
       /\ cursor' = r.cursor
       /\ offset' = r.offset
       /\ Issue(r.cmds)

\* handleNormalMode, Back
KeyBack ==
    /\ Running
    /\ mode = "Normal"
    /\ DoBack
    /\ UNCHANGED <<entries, viewVars, mouseVars, modeVars, statusVars, termVars,
                   msgs, envVars, helpVars, cmdVars, callVars, ghostVars>>

\* handleMouseEvent, MouseButtonRight
RightClick ==
    /\ Running
    /\ handlesMouse(mode)
    /\ DoBack
    /\ UNCHANGED <<entries, viewVars, mouseVars, modeVars, statusVars, termVars,
                   msgs, envVars, helpVars, cmdVars, callVars, ghostVars>>

\* handleNormalMode, TogglePreview
KeyTogglePreview ==
    /\ Running
    /\ mode = "Normal"
    /\ showPreview' = ~showPreview
    /\ UNCHANGED <<navVars, height, previewContent, previewError, previewGen,
                   mouseVars, modeVars, statusVars, termVars, asyncVars, envVars,
                   helpVars, cmdVars, callVars, ghostVars>>

\* handleNormalMode, Refresh
KeyRefresh ==
    /\ Running
    /\ mode = "Normal"
    /\ Issue(<<LoadTask>>)
    /\ UNCHANGED <<modelVars, msgs, envVars, helpVars, cmdVars, callVars, ghostVars>>

\* handleNormalMode, Escape: clears a visible command output
KeyEscape ==
    /\ Running
    /\ mode = "Normal"
    /\ IF commandOut # ""
       THEN /\ commandOut' = ""
            /\ errorMsg' = ""
            /\ statusMsg' = NoStatus
       ELSE UNCHANGED statusVars
    /\ UNCHANGED <<navVars, viewVars, mouseVars, modeVars, termVars, asyncVars,
                   envVars, helpVars, cmdVars, callVars, ghostVars>>

\* handleMouseEvent, MouseButtonLeft at row y; `lastLeft` records a click on
\* an entry: the index it resolved to, its row and its time
LeftClick(y) ==
    /\ Running
    /\ handlesMouse(mode)
    /\ LET clickedIndex == offset + (y - FileListTop)
           isDoubleClick == /\ (now - lastClickTime) < DoubleClickThreshold
                            /\ y = lastClickY
                            /\ clickedIndex = cursor
       IN IF y < FileListTop \/ ~(clickedIndex >= 0 /\ clickedIndex < Len(entries))
          THEN UNCHANGED <<navVars, viewVars, mouseVars, statusVars, asyncVars>>
          ELSE /\ lastClickTime' = now
               /\ lastClickY' = y
               /\ IF isDoubleClick
                  THEN /\ DoEnter(clickedIndex)
                       /\ UNCHANGED <<entries, viewVars, errorMsg, commandOut, msgs>>
                  ELSE LET up == updatePreview(showPreview, entries, clickedIndex,
                                               previewGen)
                       IN /\ cursor' = clickedIndex
                          /\ previewGen' = up.gen
                          /\ Issue(up.cmds)
                          /\ UNCHANGED <<currentPath, previousDir, entries, offset,
                                         height, showPreview, previewContent,
                                         previewError, statusVars, msgs>>
    /\ lastLeft' = IF y >= FileListTop /\ HasEntry(entries, offset + (y - FileListTop))
                   THEN [index |-> offset + (y - FileListTop), y |-> y, time |-> now]
                   ELSE lastLeft
    /\ UNCHANGED <<modeVars, termVars, envVars, helpVars, cmdVars, callVars,
                   latest, staleDropped, origin, prompted>>

\* a faulty terminal toggle that opens the command prompt of startInput
KeyCommandPrompt ==
    /\ Running
    /\ mode = "Normal"
    /\ mode' = "Command"
    /\ textInput' = <<>>
    /\ terminalOffset' = 0
    /\ UNCHANGED <<navVars, viewVars, mouseVars, inputType, statusVars,
                   terminalHistory, commandCounter, asyncVars, envVars, helpVars, cmdVars, callVars, ghostVars>>

\* a faulty Command key that opens the one-shot command prompt through
\* startInput(InputCommand) instead of the terminal
KeyCommandOneShot ==
    /\ Running
    /\ mode = "Normal"
    /\ mode' = startInput("Command").mode
    /\ inputType' = startInput("Command").inputType
    /\ textInput' = <<>>
    /\ terminalOffset' = 0
    /\ UNCHANGED <<navVars, viewVars, mouseVars, statusVars,
                   terminalHistory, commandCounter, asyncVars, envVars, helpVars, cmdVars, callVars, ghostVars>>

\* handleNormalMode, Command: the terminal toggle
KeyCommand ==
    /\ Running
    /\ mode = "Normal"
    /\ mode' = "Terminal"
    /\ textInput' = <<>>
    /\ terminalOffset' = 0
    /\ UNCHANGED <<navVars, viewVars, mouseVars, inputType, statusVars,
                   terminalHistory, commandCounter, asyncVars, envVars, helpVars, cmdVars, callVars, ghostVars>>

\* startInput's assignments applied to the Model, then SetValue(text)
DoStartInput(it, text) ==
    LET r == startInput(it)
    IN /\ mode' = r.mode
       /\ inputType' = r.inputType
       /\ textInput' = text
       /\ errorMsg' = r.errorMsg
       /\ statusMsg' = r.statusMsg

\* handleNormalMode, NewFile
KeyNewFile ==
    /\ Running
    /\ mode = "Normal"
    /\ DoStartInput("NewFile", <<>>)
    /\ UNCHANGED <<navVars, viewVars, mouseVars, commandOut, termVars, asyncVars,
                   envVars, helpVars, cmdVars, callVars, ghostVars>>

\* handleNormalMode, NewDir
KeyNewDir ==
    /\ Running
    /\ mode = "Normal"
    /\ DoStartInput("NewDir", <<>>)
    /\ UNCHANGED <<navVars, viewVars, mouseVars, commandOut, termVars, asyncVars,
                   envVars, helpVars, cmdVars, callVars, ghostVars>>

\* handleNormalMode, Delete: the prompt opens only on an entry
KeyDelete ==
    /\ Running
    /\ mode = "Normal"
    /\ IF HasEntry(entries, cursor)
       THEN /\ DoStartInput("Delete", <<>>)
            /\ prompted' = currentEntry(entries, cursor).Path
       ELSE UNCHANGED <<modeVars, errorMsg, statusMsg, prompted>>
    /\ UNCHANGED <<navVars, viewVars, mouseVars, commandOut, termVars, asyncVars,
                   envVars, helpVars, cmdVars, callVars, latest, staleDropped,
                   origin, lastLeft>>

\* handleNormalMode, Rename: the prompt opens holding the entry's name;
\* `prompted` records the entry the prompt was opened on
KeyRename ==
    /\ Running
    /\ mode = "Normal"
    /\ IF HasEntry(entries, cursor)
       THEN /\ DoStartInput("Rename", currentEntry(entries, cursor).Name)
            /\ prompted' = currentEntry(entries, cursor).Path
       ELSE UNCHANGED <<modeVars, errorMsg, statusMsg, prompted>>
    /\ UNCHANGED <<navVars, viewVars, mouseVars, commandOut, termVars, asyncVars,
                   envVars, helpVars, cmdVars, callVars, latest, staleDropped,
                   origin, lastLeft>>

\* ------------------------------------------------------------- Input mode
\* a faulty handleInputMode that leaves the text in place on Escape
InputKeyEscapeKeepsText ==
    /\ Running
    /\ mode \in {"Input", "Command"}
    /\ mode' = "Normal"
    /\ textInput' = textInput
    /\ UNCHANGED <<navVars, viewVars, mouseVars, inputType, statusVars, termVars,
                   asyncVars, envVars, helpVars, cmdVars, callVars, ghostVars>>

\* handleInputMode, Escape: cancelInput, or only a blur in the command prompt
InputKeyEscape ==
    /\ Running
    /\ mode \in {"Input", "Command"}
    /\ mode' = "Normal"
    /\ textInput' = IF mode = "Command" THEN textInput ELSE <<>>
    /\ UNCHANGED <<navVars, viewVars, mouseVars, inputType, statusVars, termVars,
                   asyncVars, envVars, helpVars, cmdVars, callVars, ghostVars>>

\* bookkeeping: the creation commands among cmds, each with the directory
\* shown when it was submitted
Origins(cmds, path) ==
    SetToBag({[task |-> cmds[i], path |-> path] :
                i \in {j \in 1..Len(cmds) :
                         cmds[j].kind \in {"createFile", "createDirectory"}}})

\* handleInputMode, Enter: submitInput; `origin` records where a creation
\* was submitted
InputKeyEnter ==
    /\ Running
    /\ mode \in {"Input", "Command"}
    /\ LET r == submitInput(textInput, inputType, mode, entries, cursor)
       IN /\ mode' = r.mode
          /\ Issue(r.cmds)
          /\ origin' = origin (+) Origins(r.cmds, currentPath)
    /\ textInput' = <<>>
    /\ UNCHANGED <<navVars, viewVars, mouseVars, inputType, statusVars, termVars,
                   msgs, envVars, helpVars, cmdVars, callVars, latest, staleDropped, lastLeft, prompted>>

\* handleInputMode, a character key: textinput.Update appends it while the
\* buffer has room (CharLimit)
InputChar ==
    /\ Running
    /\ mode \in {"Input", "Command"}
    /\ Len(textInput) < MaxInput
    /\ \E ch \in Chars : textInput' = Append(textInput, ch)
    /\ UNCHANGED <<navVars, viewVars, mouseVars, mode, inputType, statusVars,
                   termVars, asyncVars, envVars, helpVars, cmdVars, callVars, ghostVars>>

\* handleInputMode, Backspace: textinput.Update deletes the last character
InputBackspace ==
    /\ Running
    /\ mode \in {"Input", "Command"}
    /\ textInput # <<>>
    /\ textInput' = SubSeq(textInput, 1, Len(textInput) - 1)
    /\ UNCHANGED <<navVars, viewVars, mouseVars, mode, inputType, statusVars,
                   termVars, asyncVars, envVars, helpVars, cmdVars, callVars, ghostVars>>

\* ------------------------------------------------------------- Terminal mode
\* handleTerminalMode, Command and Escape: back to Normal, input blurred
TermLeave ==
    /\ Running
    /\ mode = "Terminal"
    /\ mode' = "Normal"
    /\ UNCHANGED <<navVars, viewVars, mouseVars, inputType, textInput, statusVars,
                   termVars, asyncVars, envVars, helpVars, cmdVars, callVars, ghostVars>>

TermKeyCommand == TermLeave

TermKeyEscape == TermLeave

\* handleTerminalMode, any other key: textinput.Update appends the character
\* while the buffer has room (CharLimit)
TermType ==
    /\ Running
    /\ mode = "Terminal"
    /\ Len(textInput) < MaxInput
    /\ \E ch \in Chars : textInput' = Append(textInput, ch)
    /\ UNCHANGED <<navVars, viewVars, mouseVars, mode, inputType, statusVars,
                   termVars, asyncVars, envVars, helpVars, cmdVars, callVars, ghostVars>>

\* a faulty submitTerminalCommand that keeps only the newest entry
submitTerminalCommandKeepsOne(text, hist, counter, path) ==
    LET cmdLine == TrimSpace(text)
    IN IF cmdLine = <<>>
       THEN [terminalHistory |-> hist, commandCounter |-> counter, cmds |-> <<>>]
       ELSE [terminalHistory |->
                 <<[Number |-> counter, Path |-> path,
                    Command |-> cmdLine, Output |-> "", Error |-> ""]>>,
             commandCounter |-> counter + 1,
             cmds |-> <<Task("command", 0, FALSE, NoPath, FALSE, 1, cmdLine,
                         NoName)>>]

\* a faulty submitTerminalCommand that numbers the entry after counting it
submitTerminalCommandCountsFirst(text, hist, counter, path) ==
    LET cmdLine == TrimSpace(text)
    IN IF cmdLine = <<>>
       THEN [terminalHistory |-> hist, commandCounter |-> counter, cmds |-> <<>>]
       ELSE [terminalHistory |->
                 Append(hist, [Number |-> counter + 1, Path |-> path,
                               Command |-> cmdLine, Output |-> "", Error |-> ""]),
             commandCounter |-> counter + 1,
             cmds |-> <<Task("command", 0, FALSE, NoPath, FALSE, Len(hist) + 1, cmdLine,
                         NoName)>>]

\* a faulty submitTerminalCommand whose closure holds the first entry of the
\* history instead of the one it appended
submitTerminalCommandFirstEntry(text, hist, counter, path) ==
    LET cmdLine == TrimSpace(text)
    IN IF cmdLine = <<>>
       THEN [terminalHistory |-> hist, commandCounter |-> counter, cmds |-> <<>>]
       ELSE [terminalHistory |->
                 Append(hist, [Number |-> counter, Path |-> path,
                               Command |-> cmdLine, Output |-> "", Error |-> ""]),
             commandCounter |-> counter + 1,
             cmds |-> <<Task("command", 0, FALSE, NoPath, FALSE, 1, cmdLine,
                         NoName)>>]

\* a faulty submitTerminalCommand that does not trim the line
submitTerminalCommandUntrimmed(text, hist, counter, path) ==
    LET cmdLine == text
    IN IF cmdLine = <<>>
       THEN [terminalHistory |-> hist, commandCounter |-> counter, cmds |-> <<>>]
       ELSE [terminalHistory |->
                 Append(hist, [Number |-> counter, Path |-> path,
                               Command |-> cmdLine, Output |-> "", Error |-> ""]),
             commandCounter |-> counter + 1,
             cmds |-> <<Task("command", 0, FALSE, NoPath, FALSE, Len(hist) + 1, cmdLine,
                         NoName)>>]

\* Model.submitTerminalCommand: the history, the counter and the command
submitTerminalCommand(text, hist, counter, path) ==
    LET cmdLine == TrimSpace(text)
    IN IF cmdLine = <<>>
       THEN [terminalHistory |-> hist, commandCounter |-> counter, cmds |-> <<>>]
       ELSE [terminalHistory |->
                 Append(hist, [Number |-> counter, Path |-> path,
                               Command |-> cmdLine, Output |-> "", Error |-> ""]),
             commandCounter |-> counter + 1,
             cmds |-> <<Task("command", 0, FALSE, NoPath, FALSE, Len(hist) + 1, cmdLine,
                         NoName)>>]

\* handleTerminalMode, Enter
TermKeyEnter ==
    /\ Running
    /\ mode = "Terminal"
    /\ LET r == submitTerminalCommand(textInput, terminalHistory, commandCounter,
                                      currentPath)
       IN /\ terminalHistory' = r.terminalHistory
          /\ commandCounter' = r.commandCounter
          /\ Issue(r.cmds)
    /\ textInput' = <<>>
    /\ UNCHANGED <<navVars, viewVars, mouseVars, mode, inputType, statusVars,
                   terminalOffset, msgs, envVars, helpVars, cmdVars, callVars, ghostVars>>

\* handleTerminalMode, Up: one line further back, at most three lines for
\* every entry of the history
TermKeyUp ==
    /\ Running
    /\ mode = "Terminal"
    /\ terminalOffset' = IF terminalOffset < Len(terminalHistory) * 3
                         THEN terminalOffset + 1
                         ELSE terminalOffset
    /\ UNCHANGED <<navVars, viewVars, mouseVars, modeVars, statusVars,
                   terminalHistory, commandCounter, asyncVars, envVars, helpVars, cmdVars, callVars,
                   ghostVars>>

\* handleTerminalMode, Down
TermKeyDown ==
    /\ Running
    /\ mode = "Terminal"
    /\ terminalOffset' = IF terminalOffset > 0 THEN terminalOffset - 1
                         ELSE terminalOffset
    /\ UNCHANGED <<navVars, viewVars, mouseVars, modeVars, statusVars,
                   terminalHistory, commandCounter, asyncVars, envVars, helpVars, cmdVars, callVars,
                   ghostVars>>

\* handleTerminalMode, PageUp: ten lines further back, with no upper limit
TermKeyPageUp ==
    /\ Running
    /\ mode = "Terminal"
    /\ terminalOffset + 10 <= MaxOffset
    /\ terminalOffset' = terminalOffset + 10
    /\ UNCHANGED <<navVars, viewVars, mouseVars, modeVars, statusVars,
                   terminalHistory, commandCounter, asyncVars, envVars, helpVars, cmdVars, callVars,
                   ghostVars>>

\* a faulty PageDown that does not stop at the newest line
TermKeyPageDownUnclamped ==
    /\ Running
    /\ mode = "Terminal"
    /\ terminalOffset' = terminalOffset - 10
    /\ UNCHANGED <<navVars, viewVars, mouseVars, modeVars, statusVars,
                   terminalHistory, commandCounter, asyncVars, envVars, helpVars, cmdVars, callVars,
                   ghostVars>>

\* handleTerminalMode, PageDown
TermKeyPageDown ==
    /\ Running
    /\ mode = "Terminal"
    /\ terminalOffset' = IF terminalOffset - 10 < 0 THEN 0 ELSE terminalOffset - 10
    /\ UNCHANGED <<navVars, viewVars, mouseVars, modeVars, statusVars,
                   terminalHistory, commandCounter, asyncVars, envVars, helpVars, cmdVars, callVars,
                   ghostVars>>

\* handleTerminalMode, Backspace: not one of its keys, so textinput.Update
\* deletes the last character
TermBackspace ==
    /\ Running
    /\ mode = "Terminal"
    /\ textInput # <<>>
    /\ textInput' = SubSeq(textInput, 1, Len(textInput) - 1)
    /\ UNCHANGED <<navVars, viewVars, mouseVars, mode, inputType, statusVars,
                   termVars, asyncVars, envVars, helpVars, cmdVars, callVars, ghostVars>>

\* ------------------------------------------------------------- quit and help
\* KeyMap.Quit and KeyMap.Help
QuitKeys == {"q", "ctrl+c"}

HelpKeys == {"?"}

\* the keys pressed while the help is shown
Keys == QuitKeys \cup HelpKeys \cup {"esc", "enter", "#", "up", "y"}

\* textinput.Update on a key message: a character is appended while the
\* buffer has room (CharLimit), a control key it does not bind changes nothing
textinputUpdate(buf, k) ==
    IF k \in {"q", "y", " "} /\ Len(buf) < MaxInput THEN Append(buf, k) ELSE buf

\* handleNormalMode, Quit: tea.Quit is returned, which ends the program; no
\* handler and no closure runs after it
KeyQuit ==
    /\ Running
    /\ mode = "Normal"
    /\ quit' = TRUE
    /\ UNCHANGED <<modelVars, asyncVars, envVars, ghostVars, cmdVars, callVars>>

\* handleInputMode, a Quit key: neither Escape nor Enter, so it goes to
\* textinput.Update
InputKeyQuit ==
    /\ Running
    /\ mode \in {"Input", "Command"}
    /\ \E k \in QuitKeys : textInput' = textinputUpdate(textInput, k)
    /\ UNCHANGED <<navVars, viewVars, mouseVars, mode, inputType, statusVars,
                   termVars, asyncVars, envVars, helpVars, cmdVars, callVars, ghostVars>>

\* a faulty handleTerminalMode that quits on a Quit key
TermKeyQuitExits ==
    /\ Running
    /\ mode = "Terminal"
    /\ quit' = TRUE
    /\ UNCHANGED <<modelVars, asyncVars, envVars, ghostVars, cmdVars, callVars>>

\* handleTerminalMode, a Quit key: none of its cases, so it goes to
\* textinput.Update
TermKeyQuit ==
    /\ Running
    /\ mode = "Terminal"
    /\ \E k \in QuitKeys : textInput' = textinputUpdate(textInput, k)
    /\ UNCHANGED <<navVars, viewVars, mouseVars, mode, inputType, statusVars,
                   termVars, asyncVars, envVars, helpVars, cmdVars, callVars, ghostVars>>

\* handleNormalMode, Help
KeyHelp ==
    /\ Running
    /\ mode = "Normal"
    /\ mode' = "Help"
    /\ showFullHelp' = ~showFullHelp
    /\ UNCHANGED <<navVars, viewVars, mouseVars, inputType, textInput, statusVars,
                   termVars, asyncVars, envVars, quit, cmdVars, callVars, ghostVars>>

\* a faulty handleHelpMode that also leaves the help on Escape
handleHelpModeEscape(k, md) ==
    IF k \in HelpKeys \cup QuitKeys \cup {"esc"} THEN "Normal" ELSE md

\* handleHelpMode: the mode after key k
handleHelpMode(k, md) ==
    IF k \in HelpKeys \cup QuitKeys THEN "Normal" ELSE md

\* handleKeyPress in Help mode
HelpKeyPress(k) ==
    /\ Running
    /\ mode = "Help"
    /\ mode' = handleHelpMode(k, mode)
    /\ UNCHANGED <<navVars, viewVars, mouseVars, inputType, textInput, statusVars,
                   termVars, asyncVars, envVars, helpVars, cmdVars, callVars, ghostVars>>

HelpKey == \E k \in Keys : HelpKeyPress(k)

\* handleMouseEvent outside Normal mode: the early return
MouseIgnored ==
    /\ Running
    /\ ~handlesMouse(mode)
    /\ UNCHANGED vars

\* ------------------------------------------------------------- the tui command
\* p.Run returns nil once tea.Quit has been returned: RunE goes on to the
\* shutdown
RunReturns ==
    /\ pc = "Run"
    /\ quit
    /\ pc' = "Shutdown"
    /\ UNCHANGED <<modelVars, asyncVars, envVars, quit, shutdowns, result,
                   ghostVars, callVars>>

\* p.Run returns an error (the terminal cannot be set up or read, the program
\* is killed or panics): RunE returns it wrapped, at once
RunFails ==
    /\ pc = "Run"
    /\ pc' = "Returned"
    /\ result' = "tui error"
    /\ UNCHANGED <<modelVars, asyncVars, envVars, quit, shutdowns, ghostVars, callVars>>

\* fs.Shutdown is called and succeeds or fails; RunE returns nil or the
\* wrapped error
Shutdown ==
    /\ pc = "Shutdown"
    /\ shutdowns' = shutdowns + 1
    /\ pc' = "Returned"
    /\ \E ok \in BOOLEAN :
          result' = IF ok THEN "nil" ELSE "failed to properly close VFS"
    /\ UNCHANGED <<modelVars, asyncVars, envVars, quit, ghostVars, callVars>>

\* ------------------------------------------------------------- functions called on their own
\* the characters of a command line: two letters, the space, the two quote
\* characters and a tab
LineChars == {"a", "b", " ", "\"", "'", "\t"}

\* every line of at most n characters
RECURSIVE LinesUpTo(_)
LinesUpTo(n) ==
    IF n = 0 THEN {<<>>}
    ELSE LET shorter == LinesUpTo(n - 1)
         IN shorter \cup {Append(l, c) : l \in shorter, c \in LineChars}

\* open "my file.txt" here
OpenLine == <<"o", "p", "e", "n", " ", "\"", "m", "y", " ", "f", "i", "l", "e", ".", "t", "x", "t", "\"", " ", "h", "e", "r", "e">>

\* it's "a b"
MixedLine == <<"i", "t", "'", "s", " ", "\"", "a", " ", "b", "\"">>

Lines == LinesUpTo(MaxLine) \cup {OpenLine, MixedLine}

InitTokenize ==
    /\ InitModel
    /\ given \in {<<l>> : l \in Lines}
    /\ returned = NoCall

\* parseCommandLine(line) is called
Tokenize ==
    /\ given # NoCall
    /\ given[1] \in Lines
    /\ returned = NoCall
    /\ returned' = <<parseCommandLine(given[1])>>
    /\ UNCHANGED <<modelVars, asyncVars, envVars, helpVars, cmdVars, given,
                   ghostVars>>

\* DetectFileType's tables, the extension already in lower case
imageExts == {}

textExts ==
    {".txt", ".md", ".go", ".js", ".py", ".java", ".c", ".cpp", ".h", ".hpp",
     ".rs", ".sh", ".bash", ".zsh", ".fish", ".json", ".xml", ".yaml", ".yml",
     ".toml", ".ini", ".cfg", ".conf", ".html", ".css", ".scss", ".sass",
     ".sql", ".log", ".csv", ".tsv", ".gitignore", ".dockerfile", ".env"}

binaryExts ==
    {".zip", ".gz", ".tar", ".bz2", ".7z", ".rar", ".xz", ".exe", ".dll",
     ".so", ".dylib", ".bin", ".dat", ".db", ".sqlite", ".pdf", ".doc",
     ".docx", ".xls", ".xlsx", ".ppt", ".pptx", ".mp3", ".mp4", ".avi",
     ".mkv", ".wav", ".flac", ".ogg", ".png", ".jpg", ".jpeg", ".gif",
     ".bmp", ".webp"}

\* DetectFileType: the tables are looked up in this order; a name without an
\* extension and an unknown extension are tried as text
DetectFileType(ext) ==
    IF ext \in imageExts THEN "PreviewImage"
    ELSE IF ext \in textExts THEN "PreviewText"
    ELSE IF ext \in binaryExts THEN "PreviewBinary"
    ELSE "PreviewText"

maxImageSize == 5 * 1024 * 1024

\* the contents the preview functions return
TextContent == "text"

NotTextContent == "[Binary file - cannot preview as text]"

TooLargeContent == "[Image too large to preview]"

ImageContent == "Image: format, pixels"

HexDumpContent == "Binary file: hex dump"

\* what a preview function returns, with the calls it made to the
\* collaborator and to image.Decode
Previewed(content, err, opens, stats, decodes) ==
    [content |-> content, err |-> err, opens |-> opens, stats |-> stats,
     decodes |-> decodes]

\* the number of bytes io.ReadFull gets into a buffer of maxBytes
ReadFull(f, maxBytes) == IF f.size < maxBytes THEN f.size ELSE maxBytes

\* isValidUTF8 on the first n bytes of the file: utf8.Valid, then the share
\* of control characters, a float64 division that gives NaN for no bytes,
\* and NaN < 0.05 is false
isValidUTF8(f, n) ==
    /\ f.utf8
    /\ n # 0
    /\ (IF f.control THEN n ELSE 0) * 20 < n

\* VFSAdapter.GenerateTextPreview
GenerateTextPreview(f, maxBytes) ==
    IF f.openFails THEN Previewed("", "open failed", 1, 0, 0)
    ELSE IF f.readFails THEN Previewed("", "read failed", 1, 0, 0)
    ELSE LET n == ReadFull(f, maxBytes)
         IN IF ~isValidUTF8(f, n) THEN Previewed(NotTextContent, "", 1, 0, 0)
            ELSE Previewed(IF n = 0 THEN "" ELSE TextContent, "", 1, 0, 0)

\* VFSAdapter.GenerateImagePreview
GenerateImagePreview(f) ==
    IF f.statFails THEN Previewed("", "failed to stat image", 0, 1, 0)
    ELSE IF f.size > maxImageSize THEN Previewed(TooLargeContent, "", 0, 1, 0)
    ELSE IF f.openFails THEN Previewed("", "failed to open image", 1, 1, 0)
    ELSE IF ~f.decodes THEN Previewed("", "failed to decode image", 1, 1, 1)
    ELSE Previewed(ImageContent, "", 1, 1, 1)

\* VFSAdapter.GenerateBinaryPreview
GenerateBinaryPreview(f) ==
    IF f.openFails THEN Previewed("", "open failed", 1, 0, 0)
    ELSE IF f.statFails THEN Previewed("", "stat failed", 1, 1, 0)
    ELSE IF f.readFails THEN Previewed("", "read failed", 1, 1, 0)
    ELSE Previewed(HexDumpContent, "", 1, 1, 0)

\* VFSAdapter.GeneratePreview: a failed image preview falls back to the hex
\* dump
GeneratePreview(f) ==
    LET type == DetectFileType(f.ext)
    IN IF type = "PreviewText" THEN GenerateTextPreview(f, 10240)
       ELSE IF type = "PreviewImage"
       THEN LET img == GenerateImagePreview(f)
                bin == GenerateBinaryPreview(f)
            IN IF img.err # ""
               THEN Previewed(bin.content, bin.err, img.opens + bin.opens,
                              img.stats + bin.stats, img.decodes)
               ELSE img
       ELSE GenerateBinaryPreview(f)

\* the closure updatePreview returns for the entry under the cursor
updatePreviewClosure(entry) ==
    IF entry.kind \in {"none", "dir"} THEN Previewed("", "", 0, 0, 0)
    ELSE GeneratePreview(entry)

\* the extensions and sizes of the files previewed
PreviewExts == {".png", ".jpg", ".jpeg", ".gif", ".bmp", ".webp", ".txt",
                ".zip", "", ".xyz"}

PreviewSizes == {0, 1, maxImageSize, maxImageSize + 1}

\* the entry under the cursor: none, a directory, or a file with its
\* extension, its size, whether its bytes are valid UTF-8, whether they are
\* control characters, and what the collaborator and image.Decode do with it
PreviewEntries ==
    [kind : {"file"}, ext : PreviewExts, size : PreviewSizes, utf8 : BOOLEAN,
     control : BOOLEAN, openFails : BOOLEAN, statFails : BOOLEAN,
     readFails : BOOLEAN, decodes : BOOLEAN]
    \cup [kind : {"none", "dir"}, ext : {""}, size : {0}, utf8 : {TRUE},
          control : {FALSE}, openFails : BOOLEAN, statFails : {FALSE},
          readFails : {FALSE}, decodes : {FALSE}]

InitPreview ==
    /\ InitModel
    /\ given \in {<<e>> : e \in PreviewEntries}
    /\ returned = NoCall

\* the closure of updatePreview runs
Preview ==
    /\ given # NoCall
    /\ given[1] \in PreviewEntries
    /\ returned = NoCall
    /\ returned' = <<updatePreviewClosure(given[1])>>
    /\ UNCHANGED <<modelVars, asyncVars, envVars, helpVars, cmdVars, given,
                   ghostVars>>

\* ------------------------------------------------------------- detached tasks
\* what a finished closure hands to the program: its one message
Deliver(t, out) ==
    /\ Running
    /\ tasks' = tasks (-) SetToBag({t})
    /\ msgs' = AddAll(msgs, out)
    /\ UNCHANGED issued

\* the messages `out` carrying the bookkeeping tag of their command
Tagged(out, back) == [i \in 1..Len(out) |-> [out[i] EXCEPT !.back = back]]

\* the closure of loadDirectory returning nothing when the listing fails
loadDirectoryRunSilent(st, path, ok) ==
    IF ~ok \/ ~IsDirIn(st, path)
    THEN <<>>
    ELSE <<directoryLoadedMsg(ListDirectory(st, path))>>

\* the closure of loadDirectory: it reads m.currentPath when it runs
loadDirectoryRun(st, path, ok) ==
    IF ~ok \/ ~IsDirIn(st, path)
    THEN <<errorMsgOf("Failed to load directory")>>
    ELSE <<directoryLoadedMsg(ListDirectory(st, path))>>

RunLoad ==
    \E t \in BagToSet(tasks) :
        /\ t.kind = "load"
        /\ Deliver(t, Tagged(loadDirectoryRun(store, currentPath, TRUE), t.back))
        /\ UNCHANGED <<modelVars, envVars, helpVars, cmdVars, callVars, ghostVars>>

\* the same closure when the collaborator's ReadDirectory fails
RunLoadFail ==
    \E t \in BagToSet(tasks) :
        /\ t.kind = "load"
        /\ Deliver(t, Tagged(loadDirectoryRun(store, currentPath, FALSE), t.back))
        /\ UNCHANGED <<modelVars, envVars, helpVars, cmdVars, callVars, ghostVars>>

\* the closures of updatePreview: the rendering of a file is identified by
\* its path; GeneratePreview may fail
updatePreviewRun(c, ok) ==
    IF c.empty THEN <<previewLoadedMsg(NoPath, "", c.gen)>>
    ELSE IF ok THEN <<previewLoadedMsg(c.path, "", c.gen)>>
    ELSE <<previewLoadedMsg(NoPath, "preview failed", c.gen)>>

\* the closure has run with GeneratePreview succeeding (ok) or failing;
\* `latest` keeps the message of the youngest generation that has run
RunPreviewWith(ok) ==
    \E t \in BagToSet(tasks) :
        /\ t.kind = "preview"
        /\ LET out == updatePreviewRun(t, ok)
           IN /\ Deliver(t, out)
              /\ latest' = IF out # <<>> /\ t.gen >= latest.generation
                            THEN out[1] ELSE latest
        /\ UNCHANGED <<modelVars, envVars, quit, cmdVars, callVars, staleDropped, origin, lastLeft, prompted>>

RunPreview == RunPreviewWith(TRUE)

RunPreviewFail == RunPreviewWith(FALSE)

\* results the collaborator's Execute may give: <<output, exit code, error>>
ExecResults == { <<"out", 0, "">>, <<"", 1, "">>, <<"", 1, "boom">> }

\* the closure of submitTerminalCommand: the entry fields it writes (or none)
\* and its message
submitTerminalCommandRun(c, res) ==
    IF Len(parseCommandLine(c.line)) = 0
    THEN [write |-> FALSE, Output |-> "", Error |-> "",
          out |-> <<commandExecutedMsg("", "")>>]
    ELSE LET errStr == IF res[3] # "" THEN res[3]
                       ELSE IF res[2] # 0 THEN "Command exited with code 1"
                       ELSE ""
         IN [write |-> TRUE, Output |-> res[1], Error |-> errStr,
             out |-> <<commandExecutedMsg(res[1], errStr)>>]

RunCommand ==
    \E t \in BagToSet(tasks), res \in ExecResults :
        /\ t.kind = "command"
        /\ LET r == submitTerminalCommandRun(t, res)
           IN /\ Deliver(t, r.out)
              /\ terminalHistory' =
                    IF r.write
                    THEN [terminalHistory EXCEPT ![t.slot].Output = r.Output,
                                                 ![t.slot].Error = r.Error]
                    ELSE terminalHistory
        /\ UNCHANGED <<navVars, viewVars, mouseVars, modeVars, statusVars,
                       terminalOffset, commandCounter, envVars, helpVars, cmdVars, callVars, ghostVars>>

\* A closure that changes the storage: the storage it leaves, the closure it
\* goes on with (m.loadDirectory()() runs in the same goroutine) and the
\* message it returns
Outcome(st, next, out) == [store |-> st, next |-> next, out |-> out]

\* the nodes at `p` and below
Subtree(st, p) ==
    { n \in st : Len(n.path) >= Len(p) /\ SubSeq(n.path, 1, Len(p)) = p }

\* VFSAdapter.CreateFile (create, exclusive): whether it succeeds
CanCreate(st, p) == ~ExistsIn(st, p) /\ p # Root /\ IsDirIn(st, Dir(p))

\* VFSAdapter.CopyFile: whether it succeeds (create or truncate dst)
CanCopy(st, src, dst) ==
    /\ [path |-> src, isDir |-> FALSE] \in st
    /\ dst # Root
    /\ ~IsDirIn(st, dst)
    /\ IsDirIn(st, Dir(dst))

\* VFSAdapter.Delete / DeleteRecursive: whether it succeeds
CanDelete(st, p, isDir) == [path |-> p, isDir |-> isDir] \in st

\* the closure of createFile: it reads m.currentPath when it runs
createFileRun(st, path, c, ok) ==
    LET p == Join(path, c.line)
    IN IF ok /\ CanCreate(st, p)
       THEN Outcome(st \cup {[path |-> p, isDir |-> FALSE]}, <<LoadTask>>, <<>>)
       ELSE Outcome(st, <<>>, <<errorMsgOf("Failed to create file")>>)

\* the closure of createDirectory
createDirectoryRun(st, path, c, ok) ==
    LET p == Join(path, c.line)
    IN IF ok /\ CanCreate(st, p)
       THEN Outcome(st \cup {[path |-> p, isDir |-> TRUE]}, <<LoadTask>>, <<>>)
       ELSE Outcome(st, <<>>, <<errorMsgOf("Failed to create directory")>>)

\* the closure of deleteEntry: recursive for a directory
deleteEntryRun(st, path, c, ok) ==
    IF ok /\ CanDelete(st, c.path, c.isDir)
    THEN Outcome(st \ (IF c.isDir THEN Subtree(st, c.path)
                                  ELSE {[path |-> c.path, isDir |-> FALSE]}),
                 <<LoadTask>>, <<>>)
    ELSE Outcome(st, <<>>, <<errorMsgOf("Failed to delete")>>)

\* a faulty closure of renameEntry that removes the old file before it has
\* the copy
renameEntryRunDeleteFirst(st, path, c, ok) ==
    IF c.isDir
    THEN Outcome(st, <<>>, <<errorMsgOf("Directory rename not yet supported")>>)
    ELSE IF ok /\ CanCopy(st, c.path, Join(path, c.line))
    THEN Outcome((st \ {[path |-> c.path, isDir |-> FALSE]})
                    \cup {[path |-> Join(path, c.line), isDir |-> FALSE]},
                 <<[c EXCEPT !.kind = "renameDelete"]>>, <<>>)
    ELSE Outcome(st, <<>>, <<errorMsgOf("Failed to rename")>>)

\* a faulty closure of renameEntry that goes on to the delete when the copy
\* has failed
renameEntryRunIgnoresCopyError(st, path, c, ok) ==
    IF c.isDir
    THEN Outcome(st, <<>>, <<errorMsgOf("Directory rename not yet supported")>>)
    ELSE IF ok /\ CanCopy(st, c.path, Join(path, c.line))
    THEN Outcome(st \cup {[path |-> Join(path, c.line), isDir |-> FALSE]},
                 <<[c EXCEPT !.kind = "renameDelete"]>>, <<>>)
    ELSE Outcome(st, <<[c EXCEPT !.kind = "renameDelete"]>>, <<>>)

\* the closure of renameEntry up to the copy: newPath is joined from
\* m.currentPath as it is when the closure runs
renameEntryRun(st, path, c, ok) ==
    IF c.isDir
    THEN Outcome(st, <<>>, <<errorMsgOf("Directory rename not yet supported")>>)
    ELSE IF ok /\ CanCopy(st, c.path, Join(path, c.line))
    THEN Outcome(st \cup {[path |-> Join(path, c.line), isDir |-> FALSE]},
                 <<[c EXCEPT !.kind = "renameDelete"]>>, <<>>)
    ELSE Outcome(st, <<>>, <<errorMsgOf("Failed to rename")>>)

\* the closure of renameEntry after the copy: the old file is removed
renameDeleteRun(st, path, c, ok) ==
    IF ok /\ CanDelete(st, c.path, FALSE)
    THEN Outcome(st \ {[path |-> c.path, isDir |-> FALSE]}, <<LoadTask>>, <<>>)
    ELSE Outcome(st, <<>>, <<errorMsgOf("Failed to remove old file")>>)

\* one step of the goroutine running closure t
Continue(t, r) ==
    /\ Running
    /\ tasks' = AddAll(tasks (-) SetToBag({t}), r.next)
    /\ msgs' = AddAll(msgs, r.out)
    /\ store' = r.store
    /\ UNCHANGED <<issued, now>>

\* bookkeeping: the record of the creation that runs leaves `origin`
Forget(t) ==
    \E g \in BagToSet(origin) :
        /\ g.task = t
        /\ origin' = origin (-) SetToBag({g})

RunCreateFileWith(ok) ==
    \E t \in BagToSet(tasks) :
        /\ t.kind = "createFile"
        /\ Continue(t, createFileRun(store, currentPath, t, ok))
        /\ Forget(t)
        /\ UNCHANGED <<modelVars, helpVars, cmdVars, callVars, latest, staleDropped, lastLeft, prompted>>

RunCreateFile == RunCreateFileWith(TRUE)

RunCreateFileFail == RunCreateFileWith(FALSE)

RunCreateDirectoryWith(ok) ==
    \E t \in BagToSet(tasks) :
        /\ t.kind = "createDirectory"
        /\ Continue(t, createDirectoryRun(store, currentPath, t, ok))
        /\ Forget(t)
        /\ UNCHANGED <<modelVars, helpVars, cmdVars, callVars, latest, staleDropped, lastLeft, prompted>>

RunCreateDirectory == RunCreateDirectoryWith(TRUE)

RunCreateDirectoryFail == RunCreateDirectoryWith(FALSE)

RunDeleteWith(ok) ==
    \E t \in BagToSet(tasks) :
        /\ t.kind = "delete"
        /\ Continue(t, deleteEntryRun(store, currentPath, t, ok))
        /\ UNCHANGED <<modelVars, helpVars, cmdVars, callVars, ghostVars>>

RunDelete == RunDeleteWith(TRUE)

RunDeleteFail == RunDeleteWith(FALSE)

RunRenameCopyWith(ok) ==
    \E t \in BagToSet(tasks) :
        /\ t.kind = "rename"
        /\ Continue(t, renameEntryRun(store, currentPath, t, ok))
        /\ UNCHANGED <<modelVars, helpVars, cmdVars, callVars, ghostVars>>

RunRenameCopy == RunRenameCopyWith(TRUE)

RunRenameCopyFail == RunRenameCopyWith(FALSE)

RunRenameDeleteWith(ok) ==
    \E t \in BagToSet(tasks) :
        /\ t.kind = "renameDelete"
        /\ Continue(t, renameDeleteRun(store, currentPath, t, ok))
        /\ UNCHANGED <<modelVars, helpVars, cmdVars, callVars, ghostVars>>

RunRenameDelete == RunRenameDeleteWith(TRUE)

RunRenameDeleteFail == RunRenameDeleteWith(FALSE)

\* ------------------------------------------------------------- Update
\* the message leaves the queue
Take(m) == Running /\ msgs' = msgs (-) SetToBag({m})

\* Update, case directoryLoadedMsg
UpdateDirectoryLoaded ==
    \E m \in BagToSet(msgs) :
        /\ m.type = "directoryLoaded"
        /\ Take(m)
        /\ entries' = m.entries
        /\ errorMsg' = ""
        /\ LET a == applyDirectoryLoaded(m.entries, cursor, offset, previousDir,
                                         height)
               up == updatePreview(showPreview, m.entries, a[1], previewGen)
           IN /\ cursor' = a[1]
              /\ offset' = a[2]
              /\ previousDir' = a[3]
              /\ previewGen' = up.gen
              /\ Issue(up.cmds)
        /\ UNCHANGED <<currentPath, height, showPreview, previewContent, previewError,
                       mouseVars, modeVars, statusMsg, commandOut, termVars, envVars,
                       helpVars, cmdVars, callVars, ghostVars>>

\* Update, case previewLoadedMsg; `staleDropped` records that a message of an
\* older generation has been processed
UpdatePreviewLoaded ==
    \E m \in BagToSet(msgs) :
        /\ m.type = "previewLoaded"
        /\ Take(m)
        /\ IF previewApplies(m.generation, previewGen)
           THEN /\ previewContent' = m.content
                /\ previewError' = m.err
           ELSE UNCHANGED <<previewContent, previewError>>
        /\ staleDropped' = (staleDropped \/ m.generation < previewGen)
        /\ UNCHANGED <<navVars, height, showPreview, previewGen, mouseVars, modeVars,
                       statusVars, termVars, tasks, issued, envVars, helpVars, cmdVars, callVars,
                       latest, origin, lastLeft, prompted>>

\* a faulty commandExecutedMsg case that returns no command
UpdateCommandExecutedNoReload ==
    \E m \in BagToSet(msgs) :
        /\ m.type = "commandExecuted"
        /\ Take(m)
        /\ commandOut' = m.output
        /\ errorMsg' = m.error
        /\ statusMsg' = Status("Command executed", NoName)
        /\ UNCHANGED <<navVars, viewVars, mouseVars, modeVars, termVars, tasks, issued, envVars,
                       helpVars, cmdVars, callVars, ghostVars>>

\* Update, case commandExecutedMsg
UpdateCommandExecuted ==
    \E m \in BagToSet(msgs) :
        /\ m.type = "commandExecuted"
        /\ Take(m)
        /\ commandOut' = m.output
        /\ errorMsg' = m.error
        /\ statusMsg' = Status("Command executed", NoName)
        /\ Issue(<<LoadTask>>)
        /\ UNCHANGED <<navVars, viewVars, mouseVars, modeVars, termVars, envVars,
                       helpVars, cmdVars, callVars, ghostVars>>

\* a faulty errorMsg case that drops the listing along with reporting
UpdateErrorClearsListing ==
    \E m \in BagToSet(msgs) :
        /\ m.type = "error"
        /\ Take(m)
        /\ errorMsg' = m.error
        /\ entries' = <<>>
        /\ cursor' = 0
        /\ offset' = 0
        /\ UNCHANGED <<currentPath, previousDir, viewVars, mouseVars, modeVars,
                       statusMsg, commandOut, termVars, tasks, issued, envVars,
                       helpVars, cmdVars, callVars, ghostVars>>

\* Update, case errorMsg
UpdateError ==
    \E m \in BagToSet(msgs) :
        /\ m.type = "error"
        /\ Take(m)
        /\ errorMsg' = m.error
        /\ UNCHANGED <<navVars, viewVars, mouseVars, modeVars, statusMsg, commandOut,
                       termVars, tasks, issued, envVars, helpVars, cmdVars, callVars, ghostVars>>

\* ------------------------------------------------------------- specifications
\* keys of Normal mode that move, navigate or reload
NavKeys ==
    \/ KeyUp
    \/ KeyDown
    \/ KeyPageUp
    \/ KeyPageDown
    \/ KeyTop
    \/ KeyBottom
    \/ KeyEnter
    \/ KeyBack
    \/ KeyTogglePreview
    \/ KeyRefresh

\* the goroutines of directory loads and previews, and their messages
NavAsync ==
    \/ RunLoad
    \/ RunPreview
    \/ UpdateDirectoryLoaded
    \/ UpdatePreviewLoaded

\* the collaborator failing
Failures ==
    \/ RunLoadFail
    \/ RunPreviewFail
    \/ UpdateError

\* the mouse and the window, with the clock that tells a double click
MouseClicks ==
    \/ Tick
    \/ WindowSize
    \/ WheelUp
    \/ WheelDown
    \/ RightClick
    \/ \E y \in ClickRows : LeftClick(y)

\* the embedded terminal
TermKeys ==
    \/ KeyCommand
    \/ KeyEscape
    \/ TermKeyCommand
    \/ TermKeyEscape
    \/ TermType
    \/ TermKeyEnter

TermAsync ==
    \/ RunCommand
    \/ UpdateCommandExecuted

\* the prompts of Normal mode and the keys of Input mode
OpsKeys ==
    \/ KeyNewFile
    \/ KeyNewDir
    \/ KeyDelete
    \/ KeyRename
    \/ InputKeyEscape
    \/ InputKeyEnter
    \/ InputChar
    \/ InputBackspace

\* the goroutines that change the storage
OpsAsync ==
    \/ RunCreateFile
    \/ RunCreateDirectory
    \/ RunDelete
    \/ RunRenameCopy
    \/ RunRenameDelete

\* the collaborator refusing a change
OpsFailures ==
    \/ RunCreateFileFail
    \/ RunCreateDirectoryFail
    \/ RunDeleteFail
    \/ RunRenameCopyFail
    \/ RunRenameDeleteFail

\* browsing with the keyboard
NextNav == NavKeys \/ NavAsync

SpecNav == Init /\ [][NextNav]_vars

\* every kind of detached task, with the keys that issue them
NextTasks ==
    \/ KeyTogglePreview
    \/ OpsKeys
    \/ TermKeys
    \/ NavAsync
    \/ TermAsync
    \/ OpsAsync
    \/ Failures
    \/ OpsFailures

SpecTasks == Init /\ [][NextTasks]_vars

\* the scroll keys of the terminal, and Backspace there
TermScroll ==
    \/ TermKeyUp
    \/ TermKeyDown
    \/ TermKeyPageUp
    \/ TermKeyPageDown
    \/ TermBackspace

\* the help, and the Quit key in every mode
HelpQuit ==
    \/ KeyHelp
    \/ HelpKey
    \/ KeyQuit
    \/ InputKeyQuit
    \/ TermKeyQuit

\* the mouse in every mode
Mouse ==
    \/ WheelUp
    \/ WheelDown
    \/ RightClick
    \/ \E y \in ClickRows : LeftClick(y)
    \/ MouseIgnored

\* the modes: how keys and the mouse are dispatched in each of them
NextModes ==
    \/ KeyCommand
    \/ TermKeyCommand
    \/ TermKeyEscape
    \/ TermKeyEnter
    \/ TermScroll
    \/ TermAsync
    \/ HelpQuit
    \/ Mouse
    \/ KeyNewFile
    \/ InputKeyEscape
    \/ RunLoad
    \/ UpdateDirectoryLoaded

SpecModes == Init /\ [][NextModes]_vars

\* deleting while directories are entered and reloaded
NextDelete ==
    \/ KeyTogglePreview
    \/ KeyDown
    \/ KeyEnter
    \/ KeyDelete
    \/ InputChar
    \/ InputKeyEnter
    \/ RunLoad
    \/ UpdateDirectoryLoaded
    \/ RunDelete
    \/ UpdateError

SpecDelete == Init /\ [][NextDelete]_vars

\* creating files and directories while directories are entered and reloaded
NextCreate ==
    \/ KeyTogglePreview
    \/ KeyEnter
    \/ KeyNewFile
    \/ KeyNewDir
    \/ InputChar
    \/ InputKeyEnter
    \/ RunLoad
    \/ UpdateDirectoryLoaded
    \/ RunCreateFile
    \/ RunCreateFileFail
    \/ RunCreateDirectory
    \/ RunCreateDirectoryFail
    \/ UpdateError

SpecCreate == Init /\ [][NextCreate]_vars

\* the embedded terminal used in several directories
NextTerminal ==
    \/ KeyTogglePreview
    \/ KeyEnter
    \/ KeyCommand
    \/ TermKeyCommand
    \/ TermType
    \/ TermKeyEnter
    \/ TermScroll
    \/ TermAsync
    \/ RunLoad
    \/ UpdateDirectoryLoaded

SpecTerminal == Init /\ [][NextTerminal]_vars

\* all the actions together
Next ==
    \/ NavKeys
    \/ MouseClicks
    \/ TermScroll
    \/ HelpQuit
    \/ MouseIgnored
    \/ RunReturns
    \/ RunFails
    \/ Shutdown
    \/ OpsKeys
    \/ TermKeys
    \/ NavAsync
    \/ TermAsync
    \/ OpsAsync
    \/ Failures
    \/ OpsFailures

Spec == Init /\ [][Next]_vars

\* the tui command from the start of the program to its return, with the
\* browsing of Normal mode
NextCommand ==
    \/ KeyTogglePreview
    \/ KeyDown
    \/ KeyEnter
    \/ KeyQuit
    \/ RunLoad
    \/ UpdateDirectoryLoaded
    \/ RunReturns
    \/ RunFails
    \/ Shutdown

SpecCommand == Init /\ [][NextCommand]_vars

\* the left button with the keys that move the cursor and scroll the list
NextClicks ==
    \/ KeyTogglePreview
    \/ KeyDown
    \/ KeyUp
    \/ Tick
    \/ \E y \in ClickRows : LeftClick(y)
    \/ RunLoad
    \/ UpdateDirectoryLoaded

SpecClicks == Init /\ [][NextClicks]_vars

\* parseCommandLine called on every line of the bounded set
NextTokenize == Tokenize

SpecTokenize == InitTokenize /\ [][NextTokenize]_vars

\* the closure of updatePreview run on every entry of the bounded set
NextPreview == Preview

SpecPreview == InitPreview /\ [][NextPreview]_vars

\* ------------------------------------------------------------- properties
\* the step processes message m: it leaves the queue and nothing is delivered
Processed(m) == BagIn(m, msgs) /\ msgs' = msgs (-) SetToBag({m})

\* a step of one of the keys that move the cursor
CursorKeyStep ==
    KeyUp \/ KeyDown \/ KeyPageUp \/ KeyPageDown \/ KeyTop \/ KeyBottom

\* a step of a left click that selects an entry
SelectClickStep ==
    /\ cursor' # cursor
    /\ \E y \in ClickRows : LeftClick(y)

\* a step that moves the cursor: a key, the wheel or a selecting click
CursorMoveStep == CursorKeyStep \/ WheelUp \/ WheelDown \/ SelectClickStep

PreviewTasksOf(gen) == { t \in BagToSet(tasks) : t.kind = "preview" /\ t.gen = gen }

PreviewMsgsOf(gen) ==
    { m \in BagToSet(msgs) : m.type = "previewLoaded" /\ m.generation = gen }

LoadsInFlight ==
    \/ \E t \in BagToSet(tasks) : t.kind = "load"
    \/ \E m \in BagToSet(msgs) : m.type \in {"directoryLoaded", "error"}

\* C1: in every reachable state 0 <= cursor < len(entries) when entries is
\* non-empty, and cursor = 0 when entries is empty.
C1_CursorInRange ==
    /\ Len(entries) > 0 => (0 <= cursor /\ cursor < Len(entries))
    /\ Len(entries) = 0 => cursor = 0

\* C2: after every cursor-changing action of Normal mode (Up, Down, PageUp,
\* PageDown, Top, Bottom, wheel, left click) with non-empty entries,
\* offset <= cursor < offset + visibleLines.
C2_CursorVisibleAfterMove ==
    [][(CursorMoveStep /\ Len(entries) > 0)
         => (offset' <= cursor' /\ cursor' < offset' + getVisibleLines(height'))]_vars

\* C3: a processed preview message is applied to previewContent/previewError
\* exactly when its generation equals previewGen; an older one changes
\* neither, and nothing else changes them.
C3_PreviewAppliedOnlyIfCurrent ==
    [][/\ \A m \in BagToSet(msgs) :
            (m.type = "previewLoaded" /\ Processed(m)) =>
                IF m.generation = previewGen
                THEN previewContent' = m.content /\ previewError' = m.err
                ELSE UNCHANGED <<previewContent, previewError>>
       /\ <<previewContent, previewError>>' # <<previewContent, previewError>> =>
            \E m \in BagToSet(msgs) :
                m.type = "previewLoaded" /\ Processed(m) /\ m.generation = previewGen
      ]_vars

\* a message of an older generation was dropped while a newer result is shown
C3_Witness ==
    /\ staleDropped
    /\ previewGen >= 2
    /\ previewContent # NoPath
    /\ previewContent = latest.content

\* C4: once the preview of the current generation has been processed, the
\* displayed preview is that generation's result, whatever older generations
\* delivered and in whatever order.
C4_NewestPreviewShown ==
    (previewGen >= 1 /\ PreviewTasksOf(previewGen) = {} /\ PreviewMsgsOf(previewGen) = {})
        => /\ latest.generation = previewGen
           /\ previewContent = latest.content
           /\ previewError = latest.err

\* two generations, both processed, the older one dropped, the newer shown
C4_Witness ==
    /\ previewGen = 2
    /\ staleDropped
    /\ \A t \in BagToSet(tasks) : t.kind # "preview"
    /\ \A m \in BagToSet(msgs) : m.type # "previewLoaded"
    /\ latest.generation = 2
    /\ previewContent = latest.content
    /\ previewContent # NoPath

\* C5: every cursor move of Normal mode and every applied directory reload
\* increments previewGen and issues a preview task of the new generation.
C5_EveryMoveBumpsGeneration ==
    [][(CursorMoveStep \/ UpdateDirectoryLoaded)
         => /\ previewGen' = previewGen + 1
            /\ \E t \in BagToSet(tasks') :
                 t.kind = "preview" /\ t.gen = previewGen + 1]_vars

\* a step of a goroutine running a closure
DetachedStep ==
    \/ RunLoad
    \/ RunLoadFail
    \/ RunPreview
    \/ RunPreviewFail
    \/ RunCommand
    \/ OpsAsync
    \/ OpsFailures

\* C6: no step of a detached task changes a field of the Model; only Update
\* does.
C6_TasksNeverWriteModel ==
    [][DetachedStep => UNCHANGED modelVars]_vars

\* C7: once every load command has completed and its message has been
\* processed, entries is the listing of currentPath.
C7_EntriesOfCurrentPath ==
    ~LoadsInFlight => entries = ListDirectory(store, currentPath)

TaskCount == BagCardinality(tasks)

MsgCount == BagCardinality(msgs)

\* C8: a detached task that ends delivers one message, whether it succeeded
\* or failed, and a message is delivered only by a task that ends: no task
\* ends silently, none delivers twice.
C8_OneMessagePerTask ==
    [][/\ TaskCount' < TaskCount =>
            (TaskCount' = TaskCount - 1 /\ MsgCount' = MsgCount + 1)
       /\ MsgCount' > MsgCount =>
            (MsgCount' = MsgCount + 1 /\ TaskCount' = TaskCount - 1)
      ]_vars

\* every task has ended: a creation went through and its reload delivered a
\* listing, another task failed and delivered an error
C8_Witness ==
    /\ tasks = EmptyBag
    /\ issued >= 3
    /\ store # InitStore
    /\ \E m \in BagToSet(msgs) : m.type = "error"
    /\ \E m \in BagToSet(msgs) :
          m.type = "directoryLoaded" /\ m.entries = ListDirectory(store, currentPath)

\* C9: Back at "/" changes nothing; elsewhere it sets currentPath to the
\* parent, remembers the name left and issues a reload; processing the
\* message of that reload puts the cursor on the entry of that name if one is
\* listed, inside the visible window, and clears the remembered name.
C9_BackRepositionsCursor ==
    [][/\ (KeyBack /\ currentPath = Root) => UNCHANGED vars
       /\ (KeyBack /\ currentPath # Root) =>
            /\ currentPath' = Dir(currentPath)
            /\ previousDir' = Base(currentPath)
            /\ BagCardinality(tasks') = BagCardinality(tasks) + 1
            /\ \E t \in BagToSet(tasks') : t.kind = "load" /\ t.back = Base(currentPath)
       /\ \A m \in BagToSet(msgs) :
            (m.type = "directoryLoaded" /\ m.back # NoName /\ Processed(m)) =>
                /\ previousDir' = NoName
                /\ IndexOfName(m.entries, m.back, 1) >= 0 =>
                     /\ cursor' = IndexOfName(m.entries, m.back, 1)
                     /\ offset' <= cursor'
                     /\ cursor' < offset' + getVisibleLines(height')
      ]_vars

LoadFailure == "Failed to load directory"

\* C11: when a directory load fails, processing its completion sets the error
\* message to the failure and leaves entries, cursor and offset exactly as
\* they were; the failing closure itself touches nothing of the Model.
C11_LoadFailureKeepsListing ==
    [][/\ RunLoadFail => UNCHANGED <<modelVars, store>>
       /\ \A m \in BagToSet(msgs) :
             (Processed(m) /\ m.type = "error" /\ m.error = LoadFailure)
             => /\ errorMsg' = LoadFailure
                /\ UNCHANGED <<entries, cursor, offset>>
      ]_vars

\* a load failed while a listing was shown: the failure is reported and the
\* listing is still there
C11_Witness ==
    /\ errorMsg = LoadFailure
    /\ entries = ListDirectory(store, currentPath)
    /\ entries # <<>>
    /\ msgs = EmptyBag

\* a key of Terminal mode other than the terminal toggle and Escape
TermOtherKey ==
    \/ TermKeyUp
    \/ TermKeyDown
    \/ TermKeyPageUp
    \/ TermKeyPageDown
    \/ TermKeyEnter
    \/ TermType
    \/ TermBackspace
    \/ TermKeyQuit

C13_EscapeLeavesHelp ==
    (mode = "Help" /\ ~quit)
    => /\ ENABLED (HelpKeyPress("?") /\ mode' = "Normal")
       /\ ENABLED (HelpKeyPress("esc") /\ mode' = "Normal")

\* the keys handleHelpMode has no case for
IgnoredInHelp == Keys \ (HelpKeys \cup QuitKeys)

\* C14: in Help mode a key other than the help-toggle and quit keys leaves
\* the whole Model unchanged and issues no task; the help-toggle and quit keys
\* set the mode to Normal; so a step taken in Help mode ends in Help or
\* Normal and never quits the program.
C14_HelpIgnoresOtherKeys ==
    [][/\ \A k \in IgnoredInHelp :
             /\ HelpKeyPress(k) => UNCHANGED <<modelVars, asyncVars, store, quit>>
             /\ mode = "Help" => ~ENABLED (HelpKeyPress(k) /\ mode' # "Help")
       /\ \A k \in HelpKeys \cup QuitKeys :
             HelpKeyPress(k) => /\ mode' = "Normal"
                                /\ UNCHANGED <<asyncVars, store, quit>>
       /\ mode = "Help" => (mode' \in {"Help", "Normal"} /\ quit' = quit)
      ]_vars

\* the help was opened and closed again, and the program still runs
C14_Witness ==
    /\ mode = "Normal"
    /\ showFullHelp
    /\ ~quit
    /\ tasks = SetToBag({LoadTask})

\* C15: a mouse event (wheel, left click, right click) received in a mode
\* other than Normal leaves the Model unchanged and issues no task.
C15_MouseIgnoredOutsideNormal ==
    [][mode # "Normal"
       => /\ Mouse => UNCHANGED <<modelVars, asyncVars, store, quit>>
          /\ ~ENABLED (Mouse /\ <<modelVars, asyncVars>>' # <<modelVars, asyncVars>>)
      ]_vars

\* the help is shown over a listing whose cursor the mouse moved before
C15_Witness ==
    /\ mode = "Help"
    /\ cursor > 0
    /\ cursor < Len(entries) - 1
    /\ ~quit

\* everything but the text of the input
AllButText ==
    <<navVars, viewVars, mouseVars, mode, inputType, statusVars, termVars,
      showFullHelp, asyncVars, store, quit>>

\* C16: the quit command is produced only by the quit key pressed in Normal
\* mode; in Input and Terminal mode the key goes to the text buffer, in Help
\* mode it only returns to Normal.
C16_QuitOnlyInNormal ==
    [][/\ quit' # quit => (KeyQuit /\ mode = "Normal" /\ quit')
       /\ KeyQuit => (quit' /\ UNCHANGED <<modelVars, asyncVars, store>>)
       /\ (InputKeyQuit \/ TermKeyQuit)
          => /\ mode \in {"Input", "Command", "Terminal"}
             /\ textInput' \in {textInput, Append(textInput, "q")}
             /\ UNCHANGED AllButText
       /\ \A k \in QuitKeys :
             HelpKeyPress(k) => (mode' = "Normal" /\ UNCHANGED <<asyncVars, quit>>)
      ]_vars

\* "q" was typed into the text input, which did not end the program; then
\* the quit key in Normal mode did
C16_Witness ==
    /\ quit
    /\ mode = "Normal"
    /\ textInput = <<"q">>

\* C17: in Input mode Escape clears the input buffer and sets the mode to
\* Normal without issuing a task, and a key other than Enter and Escape
\* changes nothing but the text buffer.
C17_InputEscapeAndTyping ==
    [][mode = "Input"
       => /\ InputKeyEscape => /\ mode' = "Normal"
                               /\ textInput' = <<>>
                               /\ UNCHANGED <<navVars, asyncVars, store>>
          /\ (InputChar \/ InputBackspace) => /\ textInput' # textInput
                                              /\ UNCHANGED AllButText
      ]_vars

\* the rename prompt, which opens holding the entry's name, was given up:
\* the text is gone, nothing was issued and the storage is as it was
C17_Witness ==
    /\ mode = "Normal"
    /\ inputType = "Rename"
    /\ textInput = <<>>
    /\ issued = 1
    /\ entries # <<>>
    /\ store = InitStore

\* C18: Enter in Input mode (new file, new directory, rename, delete) always
\* returns the mode to Normal; when the submitted text is empty after
\* trimming, no task is issued and the storage is not touched.
C18_SubmitReturnsToNormal ==
    [][(mode = "Input" /\ InputKeyEnter)
       => /\ mode' = "Normal"
          /\ TrimSpace(textInput) = <<>> => UNCHANGED <<navVars, asyncVars, store>>
      ]_vars

\* a blank was typed into the new-directory prompt and submitted: the prompt
\* is closed and nothing was issued
C18_Witness ==
    /\ mode = "Normal"
    /\ inputType = "NewDir"
    /\ textInput = <<>>
    /\ issued = 1
    /\ tasks = EmptyBag
    /\ store = InitStore

\* the answer in the text input confirms the delete
Confirms(text) == ToLower(TrimSpace(text)) \in {<<"y">>, <<"y", "e", "s">>}

\* the step submits the delete confirmation
SubmitDelete == mode = "Input" /\ inputType = "Delete" /\ InputKeyEnter

\* C19: submitting the delete confirmation issues a removal task if and only
\* if the trimmed answer, compared without regard to case, is "y" or "yes";
\* any other answer removes nothing; the removal is recursive exactly when
\* the target entry is a directory.
C19_DeleteConfirmation ==
    [][/\ (SubmitDelete /\ Confirms(textInput))
          => \E t \in BagToSet(tasks') :
                /\ t.kind = "delete"
                /\ tasks' = tasks (+) SetToBag({t})
       /\ (SubmitDelete /\ ~Confirms(textInput)) => UNCHANGED <<tasks, store>>
       /\ \A t \in BagToSet(tasks') :
             (SubmitDelete /\ tasks' = tasks (+) SetToBag({t}))
             => /\ t.path = currentEntry(entries, cursor).Path
                /\ t.isDir = currentEntry(entries, cursor).IsDir
       /\ \A t \in BagToSet(tasks) :
             (/\ t.kind = "delete"
              /\ tasks' = (tasks (-) SetToBag({t})) (+) SetToBag({LoadTask}))
             => store' = store \ (IF t.isDir THEN Subtree(store, t.path)
                                            ELSE {[path |-> t.path, isDir |-> FALSE]})
      ]_vars

\* the step takes task t out of the bag and puts the tasks `next` in
Runs(t, next) == BagIn(t, tasks) /\ tasks' = AddAll(tasks (-) SetToBag({t}), next)

\* the step delivers exactly the error message with this text
Reports(text) == msgs' = msgs (+) SetToBag({errorMsgOf(text)})

\* the record of a file in the storage
FileAt(p) == [path |-> p, isDir |-> FALSE]

\* C20: the rename of a file copies it to the new name, then deletes the old
\* file, then reloads the directory, in that order; the rename of a directory
\* changes nothing in the storage and reports an error message.
C20_RenameCopyDeleteReload ==
    [][/\ \A t \in BagToSet(tasks) :
            LET new == Join(currentPath, t.line)
                del == [t EXCEPT !.kind = "renameDelete"]
            IN /\ (t.kind = "rename" /\ ~t.isDir /\ Runs(t, <<del>>))
                  => /\ store' = store \cup {FileAt(new)}
                     /\ FileAt(t.path) \in store'
                     /\ msgs' = msgs
               /\ (t.kind = "rename" /\ ~t.isDir /\ Runs(t, <<>>))
                  => (store' = store /\ Reports("Failed to rename"))
               /\ (t.kind = "renameDelete" /\ Runs(t, <<LoadTask>>))
                  => /\ store' = store \ {FileAt(t.path)}
                     /\ FileAt(t.path) \in store
                     /\ msgs' = msgs
               /\ (t.kind = "renameDelete" /\ Runs(t, <<>>))
                  => (store' = store /\ Reports("Failed to remove old file"))
               /\ (t.kind = "rename" /\ t.isDir)
                  => /\ ~Runs(t, <<del>>)
                     /\ Runs(t, <<>>)
                        => /\ store' = store
                           /\ Reports("Directory rename not yet supported")
       /\ (RunRenameCopy \/ RunRenameCopyFail)
          => \E t \in BagToSet(tasks) :
                /\ t.kind = "rename"
                /\ Runs(t, <<>>) \/ Runs(t, <<[t EXCEPT !.kind = "renameDelete"]>>)
       /\ (RunRenameDelete \/ RunRenameDeleteFail)
          => \E t \in BagToSet(tasks) :
                /\ t.kind = "renameDelete"
                /\ Runs(t, <<>>) \/ Runs(t, <<LoadTask>>)
       /\ \A t \in BagToSet(tasks') :
             (t.kind = "renameDelete" /\ ~BagIn(t, tasks))
             => BagIn([t EXCEPT !.kind = "rename"], tasks)
      ]_vars

\* file b was renamed to y and the directory reloaded: the storage and the
\* listing hold y and no longer b
C20_Witness ==
    /\ FileAt(<< <<"y">> >>) \in store
    /\ FileAt(<< <<"b">> >>) \notin store
    /\ entries = ListDirectory(store, Root)
    /\ tasks = EmptyBag
    /\ msgs = EmptyBag

\* the step submits the name typed into the new-file or new-directory prompt
SubmitCreate ==
    /\ mode = "Input"
    /\ inputType \in {"NewFile", "NewDir"}
    /\ TrimSpace(textInput) # <<>>
    /\ InputKeyEnter

\* C21: submitting a non-empty new-file or new-directory name issues one
\* creation task for the name joined to the currentPath of the submission;
\* when the creation succeeds the task goes on as the reload of currentPath,
\* when it fails the task ends with an error message, no reload, entries
\* unchanged and the program still running.
C21_CreateThenReload ==
    [][/\ SubmitCreate
          => \E t \in BagToSet(tasks') :
                /\ t.kind = IF inputType = "NewFile" THEN "createFile"
                                                     ELSE "createDirectory"
                /\ t.line = TrimSpace(textInput)
                /\ tasks' = tasks (+) SetToBag({t})
       /\ \A g \in BagToSet(origin) :
             LET made == [path |-> Join(g.path, g.task.line),
                          isDir |-> g.task.kind = "createDirectory"]
                 failure == IF g.task.kind = "createFile"
                            THEN "Failed to create file"
                            ELSE "Failed to create directory"
             IN (origin' = origin (-) SetToBag({g}))
                => \/ /\ Runs(g.task, <<LoadTask>>)
                      /\ store' = store \cup {made}
                      /\ msgs' = msgs
                   \/ /\ Runs(g.task, <<>>)
                      /\ store' = store
                      /\ Reports(failure)
                      /\ UNCHANGED <<modelVars, quit>>
      ]_vars

\* the step submits a non-empty line in Terminal mode
SubmitLine == mode = "Terminal" /\ TrimSpace(textInput) # <<>> /\ TermKeyEnter

\* C22: Enter in Terminal mode with a non-empty line appends a new history
\* entry, tagged with the current commandCounter and currentPath and with
\* empty output and error, in the step of the submission, while the command
\* is still in flight and none of its messages is processed; the mode stays
\* Terminal.
C22_EntryAppendedOnSubmit ==
    [][SubmitLine
       => /\ terminalHistory' =
                Append(terminalHistory,
                       [Number |-> commandCounter, Path |-> currentPath,
                        Command |-> TrimSpace(textInput),
                        Output |-> "", Error |-> ""])
          /\ mode' = "Terminal"
          /\ msgs' = msgs
          /\ \E t \in BagToSet(tasks') :
                /\ t.kind = "command"
                /\ t.slot = Len(terminalHistory')
                /\ tasks' = tasks (+) SetToBag({t})
      ]_vars

\* a command was just submitted in a directory below the root: its entry is
\* in the history with that path and nothing in it yet, its command is in
\* flight
C22_Witness ==
    /\ mode = "Terminal"
    /\ currentPath # Root
    /\ Len(terminalHistory) = 1
    /\ terminalHistory[1].Number = 0
    /\ terminalHistory[1].Path = currentPath
    /\ terminalHistory[1].Output = ""
    /\ terminalHistory[1].Error = ""
    /\ commandCounter = 1
    /\ \E t \in BagToSet(tasks) : t.kind = "command" /\ t.slot = 1

\* what identifies a history entry: its number, path and command
Identity(e) == <<e.Number, e.Path, e.Command>>

\* the numbering of the history: entry i (counted from 0) carries number i
\* and commandCounter is the length
HistoryNumbered ==
    /\ commandCounter = Len(terminalHistory)
    /\ \A i \in 1..Len(terminalHistory) : terminalHistory[i].Number = i - 1

\* C23: the terminal history is append-only: its length never decreases,
\* existing entries keep their position, number, path and command, the
\* numbers increase strictly along the history, and commandCounter always
\* equals the length with entry i carrying number i.
C23_HistoryAppendOnly ==
    /\ []HistoryNumbered
    /\ [][/\ Len(terminalHistory') >= Len(terminalHistory)
          /\ \A i \in 1..Len(terminalHistory) :
                Identity(terminalHistory'[i]) = Identity(terminalHistory[i])
          /\ \A i, j \in 1..Len(terminalHistory') :
                i < j => terminalHistory'[i].Number < terminalHistory'[j].Number
         ]_vars

\* two commands were submitted and the first has its output written
C23_Witness ==
    /\ Len(terminalHistory) = 2
    /\ commandCounter = 2
    /\ terminalHistory[1].Output = "out"
    /\ terminalHistory[2].Number = 1

\* C24: in Terminal mode Up and Down change the scroll offset by at most
\* one, PageUp adds ten and PageDown takes ten off, stopping at 0; none of
\* them changes the input line; the scroll offset is never negative.
C24_ScrollKeys ==
    /\ [](terminalOffset >= 0)
    /\ [][/\ TermKeyUp => /\ terminalOffset' \in {terminalOffset, terminalOffset + 1}
                          /\ textInput' = textInput
          /\ TermKeyDown => /\ terminalOffset' \in {terminalOffset, terminalOffset - 1}
                            /\ textInput' = textInput
          /\ TermKeyPageUp => /\ terminalOffset' = terminalOffset + 10
                              /\ textInput' = textInput
          /\ TermKeyPageDown => /\ terminalOffset' = IF terminalOffset >= 10
                                                      THEN terminalOffset - 10
                                                      ELSE 0
                                /\ textInput' = textInput
         ]_vars

\* the terminal was scrolled back three lines and a page, by Up and PageUp,
\* with a typed line left as it was
C24_Witness ==
    /\ mode = "Terminal"
    /\ terminalOffset = 13
    /\ textInput = <<"y">>

\* C25: whenever the tui command has returned, the shutdown of the storage
\* collaborator has been called exactly once, after the program's loop ended;
\* before the command returns it has been called at most once.
C25_ShutdownExactlyOnce ==
    /\ shutdowns <= 1
    /\ shutdowns = 1 => pc = "Returned"
    /\ pc = "Returned" => shutdowns = 1

\* the function has been called and has returned
Called == returned # NoCall

Whitespace == {" ", "\t"}

Quotes == {"\"", "'"}

\* the characters of `seq` that are not in S, in their order
Without(seq, S) == SelectSeq(seq, LAMBDA c : c \notin S)

\* the tokens one after the other
RECURSIVE Flatten(_)
Flatten(toks) == IF toks = <<>> THEN <<>> ELSE Head(toks) \o Flatten(Tail(toks))

\* C26: parseCommandLine gives no token for the empty line; no token is empty
\* or holds a quote character; every character that is neither a quote nor
\* whitespace is kept, in order; on a line without quotes no token holds
\* whitespace and the tokens are the line without its whitespace; the line
\* open "my file.txt" here gives [open, my file.txt, here] and a "b gives
\* [a, b].
C26_Tokenize ==
    Called =>
        /\ given[1] = <<>> => returned[1] = <<>>
        /\ \A i \in 1..Len(returned[1]) :
              /\ returned[1][i] # <<>>
              /\ \A j \in 1..Len(returned[1][i]) : returned[1][i][j] \notin Quotes
        /\ Without(Flatten(returned[1]), Whitespace)
              = Without(given[1], Quotes \cup Whitespace)
        /\ Without(given[1], Quotes) = given[1]
              => /\ \A i \in 1..Len(returned[1]) :
                      \A j \in 1..Len(returned[1][i]) : returned[1][i][j] \notin Whitespace
                 /\ Flatten(returned[1]) = Without(given[1], Whitespace)
        /\ given[1] = OpenLine
              => returned[1] = <<<<"o", "p", "e", "n">>, <<"m", "y", " ", "f", "i", "l", "e", ".", "t", "x", "t">>, <<"h", "e", "r", "e">>>>
        /\ given[1] = <<"a", " ", "\"", "b">> => returned[1] = <<<<"a">>, <<"b">>>>

\* the collaborator and image.Decode work on the previewed file
Healthy == ~given[1].openFails /\ ~given[1].statFails /\ ~given[1].readFails /\ given[1].decodes

ImageExtensions == {".png", ".jpg", ".jpeg", ".gif", ".bmp", ".webp"}

\* C27: the preview of a file with an image extension and more than 5 MiB is
\* the too-large message with no error, and the file is neither opened nor
\* decoded.
C27_LargeImageNotDecoded ==
    (/\ Called
     /\ given[1].kind = "file"
     /\ given[1].ext \in ImageExtensions
     /\ given[1].size > 5 * 1024 * 1024
     /\ Healthy)
        => /\ returned[1].content = TooLargeContent
           /\ returned[1].err = ""
           /\ returned[1].opens = 0
           /\ returned[1].decodes = 0

\* C28: the preview of a zero-byte file is empty with no error; the preview
\* of a directory is empty with no error and the collaborator is not called.
C28_EmptyPreviews ==
    /\ (Called /\ given[1].kind = "file" /\ given[1].size = 0 /\ Healthy)
          => (returned[1].content = "" /\ returned[1].err = "")
    /\ (Called /\ given[1].kind = "dir")
          => /\ returned[1].content = ""
             /\ returned[1].err = ""
             /\ returned[1].opens = 0
             /\ returned[1].stats = 0

\* C29: a left click in Normal mode enters a directory (or reports that a
\* file cannot be opened) only if the left click on an entry before it
\* resolved to the same entry index, was on the same row and was less than
\* 500 ms earlier;
\* otherwise it puts the cursor on the clicked entry, offset + (y - 2), and
\* leaves the directory and the status alone when that index is in range, and
\* changes nothing of the Model and issues no task when it is out of range.
C29_DoubleClick ==
    [][\A y \in ClickRows :
         (LeftClick(y) /\ mode = "Normal") =>
            LET index == offset + (y - 2)
                double == /\ lastLeft.index = index
                          /\ lastLeft.y = y
                          /\ now - lastLeft.time < 500
            IN IF y < 2 \/ ~HasEntry(entries, index)
               THEN UNCHANGED <<modelVars, asyncVars>>
               ELSE /\ (currentPath' # currentPath \/ statusMsg' # statusMsg)
                        => double
                    /\ ~double => /\ cursor' = index
                                  /\ UNCHANGED <<currentPath, entries, offset,
                                                 statusVars>>
      ]_vars

\* C30: while a name is remembered for Back's reload, processing the message
\* of a reload that this Back did not dispatch leaves the remembered name in
\* place and does not change the cursor.
C30_PreviousDirConsumedByOwnReload ==
    [][\A m \in BagToSet(msgs) :
         (/\ m.type = "directoryLoaded"
          /\ Processed(m)
          /\ previousDir # NoName
          /\ m.back # previousDir)
            => (previousDir' = previousDir /\ cursor' = cursor)
      ]_vars

\* C31: the removal or rename task issued by submitting the prompt is for the
\* entry that was selected when the prompt was opened, whatever directory
\* listing was processed while the prompt was open.
C31_PromptTargetIsOpenedEntry ==
    [][\A t \in BagToSet(tasks') :
         (/\ mode = "Input"
          /\ inputType \in {"Delete", "Rename"}
          /\ InputKeyEnter
          /\ t.kind \in {"delete", "rename"}
          /\ tasks' = tasks (+) SetToBag({t}))
            => t.path = prompted
      ]_vars

\* C32: whenever the preview pane is shown, the selected entry is a file and
\* no preview task or preview message is in flight, the preview shown is the
\* one generated for the selected entry: its rendering with no error, or the
\* failure of GeneratePreview.
C32_PreviewIsOfSelectedEntry ==
    (/\ showPreview
     /\ HasEntry(entries, cursor)
     /\ ~currentEntry(entries, cursor).IsDir
     /\ \A t \in BagToSet(tasks) : t.kind # "preview"
     /\ \A m \in BagToSet(msgs) : m.type # "previewLoaded")
        => \/ previewContent = currentEntry(entries, cursor).Path /\ previewError = ""
           \/ previewContent = NoPath /\ previewError = "preview failed"

\* the preview tasks and preview messages of generation gen, counted
PreviewsOf(gen) ==
    LET ts == {t \in BagToSet(tasks) : t.kind = "preview" /\ t.gen = gen}
        ms == {m \in BagToSet(msgs) : m.type = "previewLoaded" /\ m.generation = gen}
    IN BagCardinality([t \in ts |-> CopiesIn(t, tasks)])
         + BagCardinality([m \in ms |-> CopiesIn(m, msgs)])

\* C33: previewGen never decreases; every preview task in flight and every
\* queued preview message carries a generation that is at most previewGen;
\* at most one of them carries the generation previewGen.
C33_PreviewGenerations ==
    /\ [][previewGen' >= previewGen]_vars
    /\ [](/\ \A t \in BagToSet(tasks) : t.kind = "preview" => t.gen <= previewGen
          /\ \A m \in BagToSet(msgs) :
                m.type = "previewLoaded" => m.generation <= previewGen
          /\ PreviewsOf(previewGen) <= 1)

\* two generations dispatched and still under way, the older as a queued
\* message, the newer as a task
C33_Witness ==
    /\ previewGen = 2
    /\ \E m \in BagToSet(msgs) : m.type = "previewLoaded" /\ m.generation = 1
    /\ \E t \in BagToSet(tasks) : t.kind = "preview" /\ t.gen = 2

\* the command tasks in flight that hold entry i of the history
CommandsOf(i) == {t \in BagToSet(tasks) : t.kind = "command" /\ t.slot = i}

\* entry i of the history has had its output or error written
Written(i) == terminalHistory[i].Output # "" \/ terminalHistory[i].Error # ""

\* C34: the output and error of a history entry change only in a step of the
\* command task of that entry, which runs the entry's command line, finds the
\* entry unwritten, changes no other entry, delivers the same result as its
\* message and ends; an entry has at most one command in flight, and none
\* once it is written.
C34_EntryWrittenByOwnCommand ==
    /\ [](\A i \in 1..Len(terminalHistory) :
            /\ \A t \in CommandsOf(i) : CopiesIn(t, tasks) = 1
            /\ Cardinality(CommandsOf(i)) <= 1
            /\ Written(i) => CommandsOf(i) = {})
    /\ [][\A i \in 1..Len(terminalHistory) :
            terminalHistory'[i] # terminalHistory[i]
            => /\ ~Written(i)
               /\ \E t \in CommandsOf(i) :
                     /\ Runs(t, <<>>)
                     /\ t.line = terminalHistory[i].Command
                     /\ msgs' = msgs (+) SetToBag({commandExecutedMsg(
                                    terminalHistory'[i].Output,
                                    terminalHistory'[i].Error)})
               /\ \A j \in 1..Len(terminalHistory) :
                     j # i => terminalHistory'[j] = terminalHistory[j]
         ]_vars

\* two commands were in flight and the second completed first: its entry is
\* written, the first entry is not and its command is still running
C34_Witness ==
    /\ Len(terminalHistory) = 2
    /\ Written(2)
    /\ ~Written(1)
    /\ CommandsOf(1) # {}

\* C35: the second half of a file rename, the removal of the source, starts
\* only from a copy step that left the new file in the storage; a node leaves
\* the storage only in the step of a removal; a failed copy leaves the storage
\* as it was, reports "Failed to rename" and starts neither the removal nor a
\* reload; a failed removal leaves the storage as it was, reports "Failed to
\* remove old file" and starts no reload.
C35_RenameFailureHandling ==
    [][/\ \A d \in BagToSet(tasks') :
            (d.kind = "renameDelete" /\ CopiesIn(d, tasks') > CopiesIn(d, tasks))
            => \E t \in BagToSet(tasks) :
                  /\ t.kind = "rename"
                  /\ ~t.isDir
                  /\ Runs(t, <<d>>)
                  /\ d = [t EXCEPT !.kind = "renameDelete"]
                  /\ FileAt(t.path) \in store
                  /\ FileAt(Join(currentPath, t.line)) \in store'
       /\ \A n \in store \ store' :
            \E t \in BagToSet(tasks) :
               /\ t.kind \in {"delete", "renameDelete"}
               /\ Runs(t, <<LoadTask>>)
       /\ \A t \in BagToSet(tasks) :
            /\ (t.kind = "rename" /\ ~t.isDir /\ Runs(t, <<>>))
                  => (store' = store /\ Reports("Failed to rename"))
            /\ (t.kind = "rename" /\ ~t.isDir) => ~Runs(t, <<LoadTask>>)
            /\ (t.kind = "renameDelete" /\ Runs(t, <<>>))
                  => (store' = store /\ Reports("Failed to remove old file"))
            /\ (t.kind = "renameDelete" /\ Runs(t, <<LoadTask>>))
                  => (store' = store \ {FileAt(t.path)} /\ msgs' = msgs)
      ]_vars

\* the copy of b to y succeeded and the removal of b failed: both files are
\* there, the failure is shown and no reload is under way
C35_Witness ==
    /\ errorMsg = "Failed to remove old file"
    /\ FileAt(<< <<"b">> >>) \in store
    /\ FileAt(<< <<"y">> >>) \in store
    /\ \A t \in BagToSet(tasks) : t.kind # "load"

\* every handler that assigns the mode or the input type, with the mouse, the
\* resize and the first directory load
NextReach ==
    \/ KeyHelp
    \/ HelpKey
    \/ KeyCommand
    \/ KeyEscape
    \/ TermKeyCommand
    \/ TermKeyEscape
    \/ TermType
    \/ TermKeyEnter
    \/ OpsKeys
    \/ Mouse
    \/ WindowSize
    \/ RunLoad
    \/ UpdateDirectoryLoaded

SpecReach == Init /\ [][NextReach]_vars

\* C36: the mode is never Command and the input type is never InputCommand,
\* whatever keys, mouse events, resizes and completions arrive, and no task of
\* executeCommand is ever issued.
C36_CommandModeUnreachable ==
    /\ mode # "Command"
    /\ inputType # "Command"
    /\ \A t \in BagToSet(tasks) : t.kind # "execute"

\* a prompt was answered and the terminal was then opened with the Command key
C36_Witness ==
    /\ mode = "Terminal"
    /\ inputType = "Rename"
    /\ \E t \in BagToSet(tasks) : t.kind = "rename"

\* C37: the scroll offset of the terminal is never negative and never more
\* than three times the number of history entries.
C37_OffsetBounds ==
    /\ 0 <= terminalOffset
    /\ terminalOffset <= 3 * Len(terminalHistory)

\* the line of the terminal holds nothing but white space
BlankLine == \A i \in 1..Len(textInput) : textInput[i] = " "

\* C38: Enter in Terminal mode on a line that is blank once trimmed appends no
\* history entry, leaves the command counter as it was and issues no task;
\* the input line is emptied and nothing else changes.
C38_BlankLineSubmitsNothing ==
    [][(mode = "Terminal" /\ BlankLine /\ TermKeyEnter)
         => /\ terminalHistory' = terminalHistory
            /\ commandCounter' = commandCounter
            /\ tasks' = tasks
            /\ issued' = issued
            /\ msgs' = msgs
            /\ textInput' = <<>>
            /\ UNCHANGED <<navVars, viewVars, mouseVars, mode, inputType,
                           statusVars, terminalOffset, envVars, helpVars,
                           cmdVars>>
      ]_vars

\* after one command, a single space is on the line and Enter empties it
C38_Witness ==
    /\ mode = "Terminal"
    /\ textInput = <<" ">>
    /\ Len(terminalHistory) = 1
    /\ commandCounter = 1
    /\ ENABLED (TermKeyEnter /\ textInput' = <<>>)

\* C39: the step that processes the completion of a command shows the
\* command's error and issues one directory load; the step that applies a
\* loaded directory empties the error message; neither step, nor any other,
\* changes the error recorded in a history entry once it is written.
C39_CommandErrorErasedByReload ==
    [][/\ \A m \in BagToSet(msgs) :
            /\ (m.type = "commandExecuted" /\ Processed(m))
                  => /\ tasks' = tasks (+) SetToBag({LoadTask})
                     /\ errorMsg' = m.error
                     /\ terminalHistory' = terminalHistory
            /\ (m.type = "directoryLoaded" /\ Processed(m))
                  => /\ errorMsg' = ""
                     /\ terminalHistory' = terminalHistory
       /\ \A i \in 1..Len(terminalHistory) :
            Written(i) => /\ Len(terminalHistory') >= i
                          /\ terminalHistory'[i] = terminalHistory[i]
      ]_vars

\* a command failed with "boom", its completion was processed and the reload
\* it issued has been applied: the error message is empty and the entry
\* still holds the error
C39_Witness ==
    /\ errorMsg = ""
    /\ statusMsg = Status("Command executed", NoName)
    /\ \E i \in 1..Len(terminalHistory) : terminalHistory[i].Error = "boom"
    /\ tasks = EmptyBag
    /\ msgs = EmptyBag

====
